---------------------------- MODULE Spec2Model ----------------------------
(***************************************************************************)
(* A model of the concurrent text-search engine of System-Agent:           *)
(* FileManager.search_string_in_files (src/system_agent/tools/file.py)     *)
(* and its tool wrapper AIAgent.__search_string_in_files_wrapper           *)
(* (src/system_agent/agent.py).                                            *)
(*                                                                         *)
(* Text is a sequence of one-character strings.  A byte of a file is one   *)
(* of "a", "A", "\n", " " or the token "0xFF" (a byte that is no valid     *)
(* UTF-8).  A path is the sequence of its characters, "/" included.        *)
(* A file body is a record [head, pad]: the bytes of head followed by pad  *)
(* space bytes, so that bodies larger than 1 KB or 1 MB have a finite      *)
(* representation.                                                         *)
(***************************************************************************)
EXTENDS Integers, Sequences, FiniteSets, Bags, TLC

VARIABLES
    scanIn,     \* SpecScan: the arguments of one scan and the file it reads
    readOut,    \* SpecScan: [done, results] of _search_with_read
    mmapOut,    \* SpecScan: [done, results] of _search_with_mmap
    req,        \* Spec: the arguments of search_string_in_files and the cwd
    bodyOfA,    \* Spec: the body of the file /w/a
    pc,         \* Spec: where the call is: start, submit, collect, done, raised
    files_to_search,  \* Spec: the work list, a sequence of [file_path, file_size]
    visited,    \* Spec: the directories os.walk listed, in the order of the walk
    strategy,   \* Spec: per work item, the scan search_file ran: none, mmap, read
    nextSubmit, \* Spec: the index of the next work item to submit
    queue,      \* Spec: the executor's work queue, indices of work items
    worker,     \* Spec: per worker thread, the work item it runs (0: idle)
    future,     \* Spec: per work item, [state, result] of its future
    yielded,    \* Spec: the futures as_completed has handed out
    results,    \* Spec: the shared result list
    submits,    \* Spec (history): per work item, how often it was submitted
    scans,      \* Spec (history): per work item, how often a worker took it
    failed,     \* Spec (history): the work items whose scan raised and passed
    statFailed, \* Spec (history): the files whose stat failed during the walk
    faultOf,    \* Spec (history): per work item, the fault met by its scan
    input_str,  \* SpecWrapper: the tool input, characters and JSON tokens
    wpc,        \* SpecWrapper: where the wrapper is
    local,      \* SpecWrapper: the wrapper's local variables
    calls,      \* SpecWrapper: calls of search_string_in_files made
    pool,       \* SpecWrapper: max_workers of the executor created (0: none)
    enumerated, \* SpecWrapper: the work list of the call made
    output,     \* SpecWrapper: the string returned, [text, count]
    polIn,      \* SpecPolicy: the arguments of one _should_ignore_path call
    polOut,     \* SpecPolicy: [done, value, args] of the call
    moduleSets, \* SpecCalls: the module-level DEFAULT_IGNORE_DIRS and _FILES objects
    callLog,    \* SpecCalls: per search call so far, its arguments and ignore sets
    liveReq,    \* SpecLive: search_bytes, max_workers and the contents of the work list
    livePc,     \* SpecLive: where the main thread is: submit, collect, done
    liveNext,   \* SpecLive: the next work item to submit
    liveQueue,  \* SpecLive: the executor's work queue
    liveWorker, \* SpecLive: per worker thread, its item and the start of its scan loop
    liveFuture, \* SpecLive: per work item, its future's state and the offsets matched
    liveYielded, \* SpecLive: the futures as_completed has handed out
    fileIn,     \* SpecFiles: the operation called and its path argument
    fileOut,    \* SpecFiles: [done, error, touched]: the paths the operation used
    zipReq,     \* SpecZip: extract_path, the member names of the archive, overwrite
    zipPc,      \* SpecZip: where extract_zip_archive is: check, extract, returned
    zipNext,    \* SpecZip: the next member of the extraction loop
    zipWritten, \* SpecZip: the paths of the files written
    zipError,   \* SpecZip: whether an error message was returned
    dupReq,     \* SpecDup: the listing of the directory and exclude_dirs
    dupPc,      \* SpecDup: where find_duplicate_files is: root, walk, returned
    dupDirs,    \* SpecDup: the dirs list of the root after its loop, the rest to walk
    dupVisited, \* SpecDup: the directories os.walk has yielded
    dupHashes,  \* SpecDup: file_hashes, the paths whose content was hashed first
    dupDuplicates, \* SpecDup: duplicates, the pairs to report
    scheduled_tasks, \* SpecSched: SchedulerManager.scheduled_tasks, the names of the tasks listed
    jobs,       \* SpecSched: the jobs of the BackgroundScheduler, each with the task it was added for
    running,    \* SpecSched: whether the BackgroundScheduler was started
    lastCall,   \* SpecSched: the last call: its arguments, its return, the list before it
    ncalls      \* SpecSched: the calls made so far

scanVars == <<scanIn, readOut, mmapOut>>
engineVars == <<req, bodyOfA, pc, files_to_search, visited, strategy, nextSubmit, queue, worker, future,
                yielded, results, submits, scans, failed, statFailed, faultOf>>
wrapVars == <<input_str, wpc, local, calls, pool, enumerated, output>>
polVars == <<polIn, polOut>>
callVars == <<moduleSets, callLog>>
liveVars == <<liveReq, livePc, liveNext, liveQueue, liveWorker, liveFuture, liveYielded>>
fileVars == <<fileIn, fileOut>>
zipVars == <<zipReq, zipPc, zipNext, zipWritten, zipError>>
dupVars == <<dupReq, dupPc, dupDirs, dupVisited, dupHashes, dupDuplicates>>
schedVars == <<scheduled_tasks, jobs, running, lastCall, ncalls>>
otherVars == <<polVars, callVars, liveVars, fileVars, zipVars, dupVars, schedVars>>
outsidePolicy == <<scanVars, engineVars, wrapVars, callVars, liveVars, fileVars, zipVars, dupVars, schedVars>>
outsideCalls == <<scanVars, engineVars, wrapVars, polVars, liveVars, fileVars, zipVars, dupVars, schedVars>>
outsideLive == <<scanVars, engineVars, wrapVars, polVars, callVars, fileVars, zipVars, dupVars, schedVars>>
outsideFiles == <<scanVars, engineVars, wrapVars, polVars, callVars, liveVars, zipVars, dupVars, schedVars>>
outsideZip == <<scanVars, engineVars, wrapVars, polVars, callVars, liveVars, fileVars, dupVars, schedVars>>
outsideDup == <<scanVars, engineVars, wrapVars, polVars, callVars, liveVars, fileVars, zipVars, schedVars>>
outsideSched == <<scanVars, engineVars, wrapVars, polVars, callVars, liveVars, fileVars, zipVars, dupVars>>
vars == <<scanVars, engineVars, wrapVars, otherVars>>

-----------------------------------------------------------------------------
(* Bounds of the explored inputs.                                          *)

MaxLen == 4       \* bytes in the head of a file body
MaxPat == 2       \* characters in a search string
MaxWorkers == 2   \* max_workers of a request
MaxFaults == 1    \* environment faults during one request
MaxCalls == 3     \* search calls in one process
MaxItems == 2     \* work items of a call whose scans are followed step by step
MaxPath == 5      \* characters in the path given to a file operation
MaxMembers == 2   \* members of a ZIP archive
MaxDirs == 3      \* subdirectories of the directory searched for duplicates
MaxOps == 3       \* calls of schedule_task and remove_scheduled_task

-----------------------------------------------------------------------------
(* Sets and sequences.                                                     *)

SetMin(S) == CHOOSE x \in S : \A y \in S : x <= y
SetMax(S) == CHOOSE x \in S : \A y \in S : x >= y
Least(a, b) == IF a <= b THEN a ELSE b

SeqsUpTo(A, n) == UNION {[1..k -> A] : k \in 0..n}

StartsWith(s, p) == Len(p) <= Len(s) /\ SubSeq(s, 1, Len(p)) = p
EndsWith(s, p) == Len(p) <= Len(s) /\ SubSeq(s, Len(s) - Len(p) + 1, Len(s)) = p

-----------------------------------------------------------------------------
(* Characters and bytes: bytes.lower / str.lower, str.strip,               *)
(* str.encode("utf-8", errors="ignore"), bytes.decode("utf-8",             *)
(* errors="ignore").                                                       *)

ContentBytes == {"a", "A", "\n", " ", "0xFF"}
PatternChars == {"a", "A", "\n"}

LowerChar(c) ==
    CASE c = "A" -> "a"
      [] c = "E" -> "e"
      [] c = "T" -> "t"
      [] OTHER -> c

LowerStr(s) == [i \in 1..Len(s) |-> LowerChar(s[i])]

IsSpace(c) == c \in {" ", "\n", "\t", "\r"}

Strip(s) ==
    LET keep == {i \in 1..Len(s) : ~IsSpace(s[i])}
    IN  IF keep = {} THEN <<>> ELSE SubSeq(s, SetMin(keep), SetMax(keep))

IsSurrogate(c) == c = "U+D800"
Encode(s) == SelectSeq(s, LAMBDA c : ~IsSurrogate(c))

IsInvalidByte(b) == b = "0xFF"
Decode(bs) == SelectSeq(bs, LAMBDA b : ~IsInvalidByte(b))

-----------------------------------------------------------------------------
(* Paths (posixpath): isabs, join, normpath, abspath, basename, relpath.   *)

RECURSIVE SplitSlash(_)
SplitSlash(s) ==
    LET idx == {i \in 1..Len(s) : s[i] = "/"}
    IN  IF idx = {} THEN <<s>>
        ELSE LET i == SetMin(idx)
             IN  <<SubSeq(s, 1, i - 1)>> \o SplitSlash(SubSeq(s, i + 1, Len(s)))

RECURSIVE JoinSlash(_)
JoinSlash(comps) ==
    IF comps = <<>> THEN <<>>
    ELSE IF Len(comps) = 1 THEN comps[1]
    ELSE comps[1] \o <<"/">> \o JoinSlash(Tail(comps))

IsAbs(p) == StartsWith(p, <<"/">>)

Join(a, b) ==
    IF IsAbs(b) THEN b
    ELSE IF a = <<>> \/ EndsWith(a, <<"/">>) THEN a \o b
    ELSE a \o <<"/">> \o b

DotDot == <<".", ".">>

RECURSIVE NormComps(_, _, _)
NormComps(comps, new_comps, initial_slashes) ==
    IF comps = <<>> THEN new_comps
    ELSE LET comp == Head(comps)
             rest == Tail(comps)
         IN  IF comp = <<>> \/ comp = <<".">>
                 THEN NormComps(rest, new_comps, initial_slashes)
             ELSE IF \/ comp # DotDot
                     \/ (~initial_slashes /\ new_comps = <<>>)
                     \/ (new_comps # <<>> /\ new_comps[Len(new_comps)] = DotDot)
                 THEN NormComps(rest, Append(new_comps, comp), initial_slashes)
             ELSE IF new_comps # <<>>
                 THEN NormComps(rest, SubSeq(new_comps, 1, Len(new_comps) - 1),
                                initial_slashes)
             ELSE NormComps(rest, new_comps, initial_slashes)

NormPath(path) ==
    IF path = <<>> THEN <<".">>
    ELSE LET initial_slashes == IsAbs(path)
             joined == JoinSlash(NormComps(SplitSlash(path), <<>>, initial_slashes))
             out == IF initial_slashes THEN <<"/">> \o joined ELSE joined
         IN  IF out = <<>> THEN <<".">> ELSE out

AbsPath(path, cwd) == NormPath(IF IsAbs(path) THEN path ELSE Join(cwd, path))

BaseName(p) ==
    LET idx == {i \in 1..Len(p) : p[i] = "/"}
    IN  IF idx = {} THEN p ELSE SubSeq(p, SetMax(idx) + 1, Len(p))

NonEmptyComps(p) == SelectSeq(SplitSlash(p), LAMBDA x : x # <<>>)

CommonLen(a, b) ==
    LET same == {k \in 0..Least(Len(a), Len(b)) : SubSeq(a, 1, k) = SubSeq(b, 1, k)}
    IN  SetMax(same)

RelPath(path, start, cwd) ==
    LET start_list == NonEmptyComps(AbsPath(start, cwd))
        path_list == NonEmptyComps(AbsPath(path, cwd))
        i == CommonLen(start_list, path_list)
        rel_list == [k \in 1..(Len(start_list) - i) |-> DotDot]
                        \o SubSeq(path_list, i + 1, Len(path_list))
    IN  IF rel_list = <<>> THEN <<".">> ELSE JoinSlash(rel_list)

(* FileManager._normalize_path: the path made absolute against the         *)
(* workspace root, or the failure of the startswith test.                  *)
WorkspaceRoot == <<"/", "w">>

NormalizePath(file_path, cwd) ==
    LET joined == IF IsAbs(file_path) THEN file_path
                  ELSE Join(WorkspaceRoot, file_path)
        normalized_path == NormPath(AbsPath(joined, cwd))
    IN  IF StartsWith(normalized_path, WorkspaceRoot)
        THEN [ok |-> TRUE, path |-> normalized_path]
        ELSE [ok |-> FALSE, path |-> normalized_path]

-----------------------------------------------------------------------------
(* File bodies and the bytes operations the scans use on them.             *)
(* Offsets are 0-based as in Python; find and rfind return -1 for "none".  *)

BufLen(buf) == Len(buf.head) + buf.pad

ByteAt(buf, i) == IF i < Len(buf.head) THEN buf.head[i + 1] ELSE " "

LowerBuf(buf) == [head |-> LowerStr(buf.head), pad |-> buf.pad]

MatchAt(buf, sub, i) ==
    /\ i + Len(sub) <= BufLen(buf)
    /\ \A k \in 1..Len(sub) : ByteAt(buf, i + k - 1) = sub[k]

(* content.find(sub, start).  A match that starts inside the padding is a  *)
(* match of spaces only, and the lowest one is at start itself.            *)
Find(buf, sub, start) ==
    LET n == Len(buf.head)
        hits == {i \in start..n : MatchAt(buf, sub, i)}
    IN  IF hits # {} THEN SetMin(hits)
        ELSE IF start > n /\ MatchAt(buf, sub, start) THEN start
        ELSE -1

(* An rfind that takes in the byte at pos: content.rfind(b"\n", 0, pos + 1) *)
RFindNewlineThrough(buf, pos) ==
    LET hits == {i \in 0..Least(pos, Len(buf.head) - 1) : buf.head[i + 1] = "\n"}
    IN  IF hits = {} THEN -1 ELSE SetMax(hits)

(* content.rfind(b"\n", 0, pos) *)
RFindNewline(buf, pos) ==
    LET hits == {i \in 0..(Least(pos, Len(buf.head)) - 1) : buf.head[i + 1] = "\n"}
    IN  IF hits = {} THEN -1 ELSE SetMax(hits)

(* A count that takes in the byte at pos: content[:pos + 1].count(b"\n")  *)
CountNewlinesThrough(buf, pos) ==
    Cardinality({i \in 0..Least(pos, Len(buf.head) - 1) : buf.head[i + 1] = "\n"})

(* content[:pos].count(b"\n") *)
CountNewlines(buf, pos) ==
    Cardinality({i \in 0..(Least(pos, Len(buf.head)) - 1) : buf.head[i + 1] = "\n"})

(* content[line_start:line_end].decode("utf-8", errors="ignore").strip()   *)
(* A slice that runs into the padding ends with spaces only, which strip   *)
(* removes whatever their number: one space stands for the run.            *)
SliceText(buf, line_start, line_end) ==
    LET n == Len(buf.head)
        inHead == SubSeq(buf.head, line_start + 1, Least(line_end, n))
        inPad == IF line_end > n /\ line_end > line_start THEN <<" ">> ELSE <<>>
    IN  Strip(Decode(inHead \o inPad))

(* line_start = content.rfind(b"\n", 0, pos) + 1 *)
LineStart(content, pos) == RFindNewline(content, pos) + 1

(* line_end = content.find(b"\n", pos), or len(content) if that is -1 *)
LineEnd(content, pos) ==
    IF Find(content, <<"\n">>, pos) = -1 THEN BufLen(content)
    ELSE Find(content, <<"\n">>, pos)

(* The body of the scan loop for a match at pos: lines 301-323 / 352-372.  *)
Occurrence(content, pos, file_path, relative_path) ==
    LET line_start == LineStart(content, pos)
        line_end == LineEnd(content, pos)
        line_number == CountNewlines(content, pos) + 1
        line_content == SliceText(content, line_start, line_end)
    IN  [file_path |-> file_path,
         line_number |-> line_number,
         line_content |-> line_content,
         relative_path |-> relative_path]

(* A scan that resumes after the whole match, as a non-overlapping search   *)
(* would.                                                                  *)
NextStartAfterMatch(pos, search_bytes) ==
    pos + (IF Len(search_bytes) > 1 THEN Len(search_bytes) ELSE 1)

(* A scan that looks again from the match it has just found.              *)
NextStartAtMatch(pos, search_bytes) == pos

(* start = pos + 1 *)
NextStart(pos, search_bytes) == pos + 1

(* The values pos takes in the while loop of a scan, in order: the         *)
(* offsets at which an Occurrence is appended.                             *)
RECURSIVE MatchPositions(_, _, _)
MatchPositions(content_to_search, search_bytes, start) ==
    LET pos == Find(content_to_search, search_bytes, start)
    IN  IF pos = -1 THEN <<>>
        ELSE <<pos>> \o MatchPositions(content_to_search, search_bytes,
                                       NextStart(pos, search_bytes))

(* The while loop of _search_with_read: the buffer searched is             *)
(* content_to_search, the lines are cut from content.                      *)
RECURSIVE ReadLoop(_, _, _, _, _, _)
ReadLoop(content, content_to_search, search_bytes, start, file_path, relative_path) ==
    LET pos == Find(content_to_search, search_bytes, start)
    IN  IF pos = -1 THEN <<>>
        ELSE <<Occurrence(content, pos, file_path, relative_path)>>
                \o ReadLoop(content, content_to_search, search_bytes,
                            NextStart(pos, search_bytes), file_path, relative_path)

(* The while loop of _search_with_mmap: one buffer, content, is searched   *)
(* and cut into lines.                                                     *)
RECURSIVE MmapLoop(_, _, _, _, _)
MmapLoop(content, search_bytes, start, file_path, relative_path) ==
    LET pos == Find(content, search_bytes, start)
    IN  IF pos = -1 THEN <<>>
        ELSE <<Occurrence(content, pos, file_path, relative_path)>>
                \o MmapLoop(content, search_bytes, NextStart(pos, search_bytes),
                            file_path, relative_path)

(* open(file_path, "rb") and the read or the mapping that follows: the    *)
(* body of the file the path names from the current directory, or a        *)
(* failure.  fault is what the environment does to the file between its    *)
(* enumeration and its scan: "oserror" (permission denied, the file        *)
(* vanished), "truncated" (the file is now empty) or "none".               *)
Faults == {"none", "oserror", "truncated"}

EmptyBody == [head |-> <<>>, pad |-> 0]

OpenFile(files, cwd, file_path, fault) ==
    LET a == AbsPath(file_path, cwd)
    IN  IF fault # "oserror" /\ a \in DOMAIN files
        THEN [ok |-> TRUE, body |-> IF fault = "truncated" THEN EmptyBody ELSE files[a]]
        ELSE [ok |-> FALSE, body |-> EmptyBody]

(* Each scan returns [raised, results]: results is the list returned and   *)
(* raised tells whether "except Exception: pass" was taken.                *)
SearchWithRead(files, cwd, fault, file_path, search_bytes, ignore_case, base_directory) ==
    LET f == OpenFile(files, cwd, file_path, fault)
        content == f.body
        content_to_search == IF ignore_case THEN LowerBuf(content) ELSE content
    IN  IF ~f.ok
        THEN [raised |-> TRUE, results |-> <<>>]
        ELSE [raised |-> FALSE,
              results |-> ReadLoop(content, content_to_search, search_bytes, 0,
                                   file_path, RelPath(file_path, base_directory, cwd))]

SearchWithMmap(files, cwd, fault, file_path0, search_bytes, ignore_case, base_directory) ==
    LET norm == NormalizePath(Strip(file_path0), cwd)
        file_path == IF norm.ok THEN norm.path ELSE Strip(file_path0)
        f == OpenFile(files, cwd, file_path, fault)
        \* mmap.mmap(f.fileno(), 0) raises ValueError on an empty file
        mapped == f.ok /\ BufLen(f.body) > 0
        content == IF ignore_case THEN LowerBuf(f.body) ELSE f.body
    IN  IF ~mapped
        THEN [raised |-> TRUE, results |-> <<>>]
        ELSE [raised |-> FALSE,
              results |-> MmapLoop(content, search_bytes, 0, file_path,
                                   RelPath(file_path, base_directory, cwd))]

(* Search bytes that keep the case of the search string.                   *)
SearchBytesAsGiven(search_string, ignore_case) == Encode(search_string)

(* search_string_in_files, lines 425-428 *)
SearchBytes(search_string, ignore_case) ==
    IF ignore_case THEN LowerStr(Encode(search_string)) ELSE Encode(search_string)

-----------------------------------------------------------------------------
(* The ignore policy and the enumeration of search_string_in_files.        *)

(* fnmatch.fnmatch(name, pat) for patterns made of literal characters,     *)
(* "*" and "?".                                                            *)
RECURSIVE FnMatch(_, _)
FnMatch(name, pat) ==
    IF pat = <<>> THEN name = <<>>
    ELSE IF Head(pat) = "*"
        THEN FnMatch(name, Tail(pat)) \/ (name # <<>> /\ FnMatch(Tail(name), pat))
    ELSE /\ name # <<>>
         /\ Head(pat) = "?" \/ Head(pat) = Head(name)
         /\ FnMatch(Tail(name), Tail(pat))

Range(seq) == {seq[k] : k \in 1..Len(seq)}

(* Members of config.DEFAULT_IGNORE_DIRS and config.DEFAULT_IGNORE_FILES.  *)
DEFAULT_IGNORE_DIRS == {<<"e", "n", "v">>, <<"t", "m", "p">>, <<"l", "o", "g">>}
DEFAULT_IGNORE_FILES == {<<"*", ".", "o">>, <<"*", ".", "a">>}

(* os.path.isdir / os.path.isfile on a file system fs = [dirs, files],     *)
(* dirs a function from the absolute path of a directory to its listing    *)
(* and files one from the absolute path of a file to its body.             *)
IsDir(fs, cwd, path) == AbsPath(path, cwd) \in DOMAIN fs.dirs
IsFile(fs, cwd, path) == AbsPath(path, cwd) \in DOMAIN fs.files

(* A policy that compares the directory names without regard to case.     *)
ShouldIgnorePathFoldingDirs(fs, cwd, path, ignore_dirs, ignore_files, custom_ignore_patterns) ==
    LET path_name == BaseName(path)
    IN  \/ /\ IsDir(fs, cwd, path)
           /\ \E d \in ignore_dirs : LowerStr(d) = LowerStr(path_name)
        \/ /\ IsFile(fs, cwd, path)
           /\ \E pattern \in ignore_files :
                  FnMatch(LowerStr(path_name), LowerStr(pattern))
        \/ \E pattern \in Range(custom_ignore_patterns) :
              \/ FnMatch(LowerStr(path_name), LowerStr(pattern))
              \/ FnMatch(LowerStr(path), <<"*">> \o LowerStr(pattern) \o <<"*">>)

(* _should_ignore_path, lines 381-420 *)
ShouldIgnorePath(fs, cwd, path, ignore_dirs, ignore_files, custom_ignore_patterns) ==
    LET path_name == BaseName(path)
    IN  \/ IsDir(fs, cwd, path) /\ path_name \in ignore_dirs
        \/ /\ IsFile(fs, cwd, path)
           /\ \E pattern \in ignore_files :
                  FnMatch(LowerStr(path_name), LowerStr(pattern))
        \/ \E pattern \in Range(custom_ignore_patterns) :
              \/ FnMatch(LowerStr(path_name), LowerStr(pattern))
              \/ FnMatch(LowerStr(path), <<"*">> \o LowerStr(pattern) \o <<"*">>)

(* Ignore sets that hold the defaults whatever disable_smart_ignore is.    *)
IgnoreDirsWithDefaults(r) == DEFAULT_IGNORE_DIRS \cup Range(r.additional_ignore_dirs)

(* search_string_in_files, lines 430-440 *)
IgnoreDirs(r) ==
    IF r.disable_smart_ignore THEN Range(r.additional_ignore_dirs)
    ELSE DEFAULT_IGNORE_DIRS \cup Range(r.additional_ignore_dirs)

IgnoreFiles(r) ==
    IF r.disable_smart_ignore THEN Range(r.additional_ignore_files)
    ELSE DEFAULT_IGNORE_FILES \cup Range(r.additional_ignore_files)

(* A setup that adds the caller's names to the module-level sets           *)
(* themselves: ignore_dirs = DEFAULT_IGNORE_DIRS without the copy.         *)
IgnoreSetupInPlace(module, r) ==
    IF r.disable_smart_ignore
    THEN [ignore_dirs |-> Range(r.additional_ignore_dirs),
          ignore_files |-> Range(r.additional_ignore_files),
          module |-> module]
    ELSE [ignore_dirs |-> module.ignore_dirs \cup Range(r.additional_ignore_dirs),
          ignore_files |-> module.ignore_files \cup Range(r.additional_ignore_files),
          module |-> [ignore_dirs |->
                          module.ignore_dirs \cup Range(r.additional_ignore_dirs),
                      ignore_files |->
                          module.ignore_files \cup Range(r.additional_ignore_files)]]

(* Lines 430-440 on the module-level objects: the local ignore_dirs and    *)
(* ignore_files of the call, and the module-level sets after it.  The      *)
(* locals are copies (.copy()), so that update() writes to the copies.     *)
IgnoreSetup(module, r) ==
    IF r.disable_smart_ignore
    THEN [ignore_dirs |-> Range(r.additional_ignore_dirs),
          ignore_files |-> Range(r.additional_ignore_files),
          module |-> module]
    ELSE [ignore_dirs |-> module.ignore_dirs \cup Range(r.additional_ignore_dirs),
          ignore_files |-> module.ignore_files \cup Range(r.additional_ignore_files),
          module |-> module]

Ignored(fs, r, path) ==
    ShouldIgnorePath(fs, r.cwd, path, IgnoreDirs(r), IgnoreFiles(r),
                     r.custom_ignore_patterns)

(* max_file_size_bytes = max_file_size_mb * 1024 * 1024 *)
MaxFileSizeBytes(r) == r.max_file_size_mb * 1024 * 1024

(* A file whose size is strictly under the ceiling only.                   *)
SizeStrictlyUnder(file_size, r) == file_size < MaxFileSizeBytes(r)

(* file_size <= max_file_size_bytes *)
SizeAllowed(file_size, r) == file_size <= MaxFileSizeBytes(r)

(* A loop over the files of a directory that a raising os.path.getsize     *)
(* ends: the files listed after the failing one are not looked at.         *)
RECURSIVE FilesOfDirUntilFailure(_, _, _, _, _)
FilesOfDirUntilFailure(fs, r, stat_fails, root, files) ==
    IF files = <<>> THEN <<>>
    ELSE LET file == Head(files)
             file_path == Join(root, file)
             a == AbsPath(file_path, r.cwd)
             rest == FilesOfDirUntilFailure(fs, r, stat_fails, root, Tail(files))
         IN  IF Ignored(fs, r, file_path) THEN rest
             ELSE IF ~FnMatch(file, r.file_pattern) THEN rest
             ELSE IF a \in stat_fails \/ a \notin DOMAIN fs.files THEN <<>>
             ELSE IF SizeAllowed(BufLen(fs.files[a]), r)
                 THEN <<[file_path |-> file_path, file_size |-> BufLen(fs.files[a])]>>
                          \o rest
             ELSE rest

(* The files of one visited directory that go to the work list (lines      *)
(* 465-481), in listing order.  stat_fails holds the paths of the files    *)
(* whose os.path.getsize raises OSError.                                   *)
RECURSIVE FilesOfDir(_, _, _, _, _)
FilesOfDir(fs, r, stat_fails, root, files) ==
    IF files = <<>> THEN <<>>
    ELSE LET file == Head(files)
             file_path == Join(root, file)
             a == AbsPath(file_path, r.cwd)
             rest == FilesOfDir(fs, r, stat_fails, root, Tail(files))
         IN  IF Ignored(fs, r, file_path) THEN rest
             ELSE IF ~FnMatch(file, r.file_pattern) THEN rest
             ELSE IF a \in stat_fails \/ a \notin DOMAIN fs.files THEN rest
             ELSE IF SizeAllowed(BufLen(fs.files[a]), r)
                 THEN <<[file_path |-> file_path, file_size |-> BufLen(fs.files[a])]>>
                          \o rest
             ELSE rest

(* A walk that leaves every child directory in dirs.                       *)
Unpruned(fs, r, root, dirs) == dirs

(* dirs[:] = [d for d in dirs if not _should_ignore_path(join(root, d))]   *)
PrunedDirs(fs, r, root, dirs) ==
    SelectSeq(dirs, LAMBDA d : ~Ignored(fs, r, Join(root, d)))

(* for root, dirs, files in os.walk(directory): lines 446-481.  Top-down:  *)
(* the files of root, then the walk of each child directory kept.          *)
RECURSIVE Walk(_, _, _, _)
RECURSIVE WalkEach(_, _, _, _, _)
Walk(fs, r, stat_fails, root) ==
    LET a == AbsPath(root, r.cwd)
    IN  IF a \notin DOMAIN fs.dirs THEN <<>>
        ELSE LET dirs == PrunedDirs(fs, r, root, fs.dirs[a].dirs)
                 here == IF Ignored(fs, r, root) THEN <<>>
                         ELSE FilesOfDir(fs, r, stat_fails, root, fs.dirs[a].files)
             IN  here \o WalkEach(fs, r, stat_fails, root, dirs)

WalkEach(fs, r, stat_fails, root, dirs) ==
    IF dirs = <<>> THEN <<>>
    ELSE Walk(fs, r, stat_fails, Join(root, Head(dirs)))
             \o WalkEach(fs, r, stat_fails, root, Tail(dirs))

(* The directories os.walk(directory) yields as root, top-down: the        *)
(* directory itself, then the walks of the child directories left in dirs. *)
RECURSIVE WalkRoots(_, _, _)
RECURSIVE WalkRootsEach(_, _, _, _)
WalkRoots(fs, r, root) ==
    IF AbsPath(root, r.cwd) \notin DOMAIN fs.dirs THEN <<>>
    ELSE <<root>> \o WalkRootsEach(fs, r, root,
                         PrunedDirs(fs, r, root, fs.dirs[AbsPath(root, r.cwd)].dirs))

WalkRootsEach(fs, r, root, dirs) ==
    IF dirs = <<>> THEN <<>>
    ELSE WalkRoots(fs, r, Join(root, Head(dirs)))
             \o WalkRootsEach(fs, r, root, Tail(dirs))

(* search_file: the scan chosen by size, lines 487-505 *)
MmapThreshold == 1024

(* A choice that maps the files of the threshold size too.                 *)
UseMmapFromThreshold(r, file_info) ==
    r.use_memory_mapping /\ file_info.file_size >= MmapThreshold

(* if use_memory_mapping and file_size > 1024 *)
UseMmap(r, file_info) == r.use_memory_mapping /\ file_info.file_size > MmapThreshold

(* The scan search_file chooses for a work item.                           *)
ChosenScan(fs, r, fault, file_info) ==
    IF UseMmap(r, file_info)
    THEN [scan |-> "mmap"]
             @@ SearchWithMmap(fs.files, r.cwd, fault, file_info.file_path,
                               SearchBytes(r.search_string, r.ignore_case), r.ignore_case,
                               r.directory)
    ELSE [scan |-> "read"]
             @@ SearchWithRead(fs.files, r.cwd, fault, file_info.file_path,
                               SearchBytes(r.search_string, r.ignore_case), r.ignore_case,
                               r.directory)

(* A search_file whose scan lets the exception of open, mmap or read       *)
(* through: the future ends with the exception.                            *)
SearchFileLettingThrough(fs, r, fault, file_info) ==
    LET out == ChosenScan(fs, r, fault, file_info)
    IN  [exception |-> out.raised] @@ out

(* What the future of a work item ends with: the list search_file          *)
(* returns; no exception leaves search_file.                               *)
SearchFile(fs, r, fault, file_info) ==
    [exception |-> FALSE] @@ ChosenScan(fs, r, fault, file_info)

-----------------------------------------------------------------------------
(* Spec: one call of search_string_in_files on a small tree.               *)
(*                                                                         *)
(*   /w            a  k          (a: one of BodyChoices)                   *)
(*   /w/env        b             (env is in DEFAULT_IGNORE_DIRS)           *)
(*   /w/env/s      c                                                       *)
(*   /w/d          h  g.o        (g.o matches a DEFAULT_IGNORE_FILES glob) *)
(*   /w/d/env      e                                                       *)
(*                                                                         *)
(* g.o is of the size of the mmap threshold, e one byte and h two bytes    *)
(* over it.                                                                *)
(*                                                                         *)
(* Listings are in a fixed order (os.walk gives no order).                 *)

None == <<"None">>

W == <<"/", "w">>
ENV == <<"e", "n", "v">>
Abs(comps) == <<"/">> \o JoinSlash(comps)

BytesPerMB == 1024 * 1024

Small(head) == [head |-> head, pad |-> 0]

(* Bodies of /w/a under a ceiling of mb megabytes: one byte long, and of   *)
(* a size at and one byte over the ceiling.                                *)
BodyChoices(mb) ==
    { Small(<<"a">>),
      [head |-> IF mb = 0 THEN <<>> ELSE <<"a">>,
       pad |-> IF mb = 0 THEN 0 ELSE mb * BytesPerMB - 1],
      [head |-> <<"a">>, pad |-> mb * BytesPerMB] }

TreeDirs ==
    (W :> [dirs |-> <<ENV, <<"d">>, <<"m">>>>, files |-> <<<<"a">>, <<"k">>>>])
    @@ (Abs(<<<<"w">>, <<"m">>>>) :> [dirs |-> <<>>, files |-> <<>>])
    @@ (Abs(<<<<"w">>, ENV>>) :> [dirs |-> <<<<"s">>>>, files |-> <<<<"b">>>>])
    @@ (Abs(<<<<"w">>, ENV, <<"s">>>>) :> [dirs |-> <<>>, files |-> <<<<"c">>>>])
    @@ (Abs(<<<<"w">>, <<"d">>>>) :> [dirs |-> <<ENV>>,
                                      files |-> <<<<"h">>, <<"g", ".", "o">>>>])
    @@ (Abs(<<<<"w">>, <<"d">>, ENV>>) :> [dirs |-> <<>>, files |-> <<<<"e">>>>])

TreeFiles(bodyA) ==
    (Abs(<<<<"w">>, <<"a">>>>) :> bodyA)
    @@ (Abs(<<<<"w">>, <<"k">>>>) :> Small(<<"A", "\n", "a">>))
    @@ (Abs(<<<<"w">>, ENV, <<"b">>>>) :> Small(<<"a">>))
    @@ (Abs(<<<<"w">>, ENV, <<"s">>, <<"c">>>>) :> Small(<<"a">>))
    @@ (Abs(<<<<"w">>, <<"d">>, <<"h">>>>) :> [head |-> <<"A", "a">>, pad |-> MmapThreshold])
    @@ (Abs(<<<<"w">>, <<"d">>, <<"g", ".", "o">>>>) :>
            [head |-> <<"a">>, pad |-> MmapThreshold - 1])
    @@ (Abs(<<<<"w">>, <<"d">>, ENV, <<"e">>>>) :> [head |-> <<"a">>, pad |-> MmapThreshold])

(* The file system, [dirs, files].                                         *)
Tree == [dirs |-> TreeDirs, files |-> TreeFiles(bodyOfA)]

EngineRoots ==
    { None, Abs(<<<<"w">>, ENV>>), Abs(<<<<"w">>, ENV, <<"s">>>>),
      Abs(<<<<"w">>, <<"d">>>>), <<"d">> }

(* What the caller adds to the ignore policy: nothing, the directory name  *)
(* d, the file pattern h or the custom pattern k.                          *)
NoAdditions ==
    [additional_ignore_dirs |-> <<>>, additional_ignore_files |-> <<>>,
     custom_ignore_patterns |-> <<>>]

Additions ==
    { NoAdditions,
      [NoAdditions EXCEPT !.additional_ignore_dirs = <<<<"d">>>>],
      [NoAdditions EXCEPT !.additional_ignore_files = <<<<"h">>>>],
      [NoAdditions EXCEPT !.custom_ignore_patterns = <<<<"k">>>>] }

EngineIdle ==
    /\ req = <<>> /\ bodyOfA = <<>> /\ pc = "idle"
    /\ files_to_search = <<>> /\ visited = <<>> /\ strategy = <<>> /\ nextSubmit = 0 /\ queue = <<>>
    /\ worker = <<>> /\ future = <<>> /\ yielded = {} /\ results = <<>>
    /\ submits = <<>> /\ scans = <<>> /\ failed = {}
    /\ statFailed = {} /\ faultOf = <<>>

WrapperIdle ==
    /\ input_str = <<>> /\ wpc = "idle" /\ local = <<>> /\ calls = 0 /\ pool = 0
    /\ enumerated = <<>> /\ output = <<>>

PolicyIdle == polIn = <<>> /\ polOut = <<>>

CallsIdle == moduleSets = <<>> /\ callLog = <<>>

LiveIdle ==
    /\ liveReq = <<>> /\ livePc = "idle" /\ liveNext = 0 /\ liveQueue = <<>>
    /\ liveWorker = <<>> /\ liveFuture = <<>> /\ liveYielded = {}

FilesIdle == fileIn = <<>> /\ fileOut = <<>>

ZipIdle == zipReq = <<>> /\ zipPc = <<>> /\ zipNext = <<>> /\ zipWritten = <<>> /\ zipError = <<>>

DupIdle == dupReq = <<>> /\ dupPc = <<>> /\ dupDirs = <<>> /\ dupVisited = <<>> /\ dupHashes = <<>> /\ dupDuplicates = <<>>

SchedIdle == scheduled_tasks = <<>> /\ jobs = <<>> /\ running = <<>> /\ lastCall = <<>> /\ ncalls = <<>>

OthersIdle == PolicyIdle /\ CallsIdle /\ LiveIdle /\ FilesIdle /\ ZipIdle /\ DupIdle /\ SchedIdle

EngineInit ==
    /\ \E directory \in EngineRoots, file_pattern \in {<<"*">>, <<"?">>},
          ignore_case \in BOOLEAN, max_workers \in 1..MaxWorkers,
          max_file_size_mb \in {0, 1}, use_memory_mapping \in BOOLEAN,
          disable_smart_ignore \in BOOLEAN,
          additions \in Additions :
       \E bodyA \in BodyChoices(max_file_size_mb) :
          \* the whole Tree without the default ignore set is searched from
          \* the subdirectories only
          /\ directory = None => ~disable_smart_ignore
          \* "?" and "*" differ on g.o alone, a file of /w/d
          /\ file_pattern = <<"?">> => directory \in {Abs(<<<<"w">>, <<"d">>>>), <<"d">>}
          /\ req = [cwd |-> W,
                    search_string |-> <<"a">>,
                    \* if directory is None: directory = os.getcwd()
                    directory |-> IF directory = None THEN W ELSE directory,
                    file_pattern |-> file_pattern,
                    ignore_case |-> ignore_case,
                    max_workers |-> max_workers,
                    max_file_size_mb |-> max_file_size_mb,
                    use_memory_mapping |-> use_memory_mapping,
                    disable_smart_ignore |-> disable_smart_ignore,
                    custom_ignore_patterns |-> additions.custom_ignore_patterns,
                    additional_ignore_dirs |-> additions.additional_ignore_dirs,
                    additional_ignore_files |-> additions.additional_ignore_files]
          /\ bodyOfA = bodyA
    /\ pc = "start"
    /\ files_to_search = <<>> /\ visited = <<>> /\ strategy = <<>> /\ nextSubmit = 1 /\ queue = <<>>
    /\ worker = [w \in 1..req.max_workers |-> 0]
    /\ future = <<>> /\ yielded = {} /\ results = <<>>
    /\ submits = <<>> /\ scans = <<>> /\ failed = {}
    /\ statFailed = {} /\ faultOf = <<>>

(* The environment faults a request has met, at most MaxFaults.            *)
FaultsUsed ==
    Cardinality(statFailed) + Cardinality({i \in DOMAIN faultOf : faultOf[i] # "none"})

(* The files the walk would put on the work list if no os.path.getsize     *)
(* raised: those on which a raising getsize changes the work list.         *)
StatCandidates ==
    {AbsPath(info.file_path, req.cwd) : info \in Range(Walk(Tree, req, {}, req.directory))}

(* Lines 443-481: the walk fills files_to_search.  stat_fails are the      *)
(* files whose os.path.getsize raises during this walk.                    *)
Enumerate ==
    /\ pc = "start"
    /\ \E stat_fails \in {S \in SUBSET StatCandidates : Cardinality(S) <= MaxFaults} :
          /\ files_to_search' = Walk(Tree, req, stat_fails, req.directory)
          /\ statFailed' = stat_fails
    /\ visited' = WalkRoots(Tree, req, req.directory)
    /\ future' = [i \in 1..Len(files_to_search') |->
                      [state |-> "none", result |-> <<>>, exception |-> FALSE]]
    /\ submits' = [i \in 1..Len(files_to_search') |-> 0]
    /\ scans' = [i \in 1..Len(files_to_search') |-> 0]
    /\ faultOf' = [i \in 1..Len(files_to_search') |-> "none"]
    /\ strategy' = [i \in 1..Len(files_to_search') |-> "none"]
    /\ pc' = IF files_to_search' = <<>> THEN "collect" ELSE "submit"
    /\ UNCHANGED <<wrapVars, scanVars, otherVars, req, bodyOfA, nextSubmit, queue, worker, yielded, results,
                   failed>>

(* The work queue after the item is submitted twice.                       *)
SubmittedTwice(q, i) == Append(Append(q, i), i)

(* executor.submit(search_file, file_info): one entry in the work queue    *)
Submitted(q, i) == Append(q, i)

(* Lines 509-512: the next work item is submitted; after the last one the  *)
(* main thread goes on to as_completed.                                    *)
Submit ==
    /\ pc = "submit"
    /\ queue' = Submitted(queue, nextSubmit)
    /\ submits' = [submits EXCEPT ![nextSubmit] =
                       Cardinality({k \in 1..Len(queue') : queue'[k] = nextSubmit})
                       - Cardinality({k \in 1..Len(queue) : queue[k] = nextSubmit}) + @]
    /\ future' = [future EXCEPT ![nextSubmit].state = "pending"]
    /\ nextSubmit' = nextSubmit + 1
    /\ pc' = IF nextSubmit = Len(files_to_search) THEN "collect" ELSE "submit"
    /\ UNCHANGED <<wrapVars, scanVars, otherVars, req, bodyOfA, visited, strategy,
                   files_to_search, worker, yielded, results,
                   scans, failed, statFailed, faultOf>>

(* An idle worker thread takes the first queued work item.                 *)
WorkerTake(w) ==
    /\ pc \in {"submit", "collect"}
    /\ worker[w] = 0
    /\ queue # <<>>
    /\ worker' = [worker EXCEPT ![w] = Head(queue)]
    /\ queue' = Tail(queue)
    /\ future' = [future EXCEPT ![Head(queue)].state = "running"]
    /\ scans' = [scans EXCEPT ![Head(queue)] = @ + 1]
    /\ UNCHANGED <<wrapVars, scanVars, otherVars, req, bodyOfA, visited, strategy,
                   pc, files_to_search, nextSubmit, yielded,
                   results, submits, failed, statFailed, faultOf>>

(* The worker runs search_file on its item to the end; the future holds    *)
(* the list returned.                                                      *)
WorkerFinish(w) ==
    /\ worker[w] # 0
    /\ \E fault \in (IF FaultsUsed < MaxFaults THEN Faults ELSE {"none"}) :
          LET i == worker[w]
          IN  \E out \in {SearchFile(Tree, req, fault, files_to_search[i])} :
              /\ future' = [future EXCEPT ![i] =
                                [state |-> "finished", result |-> out.results,
                                 exception |-> out.exception]]
              /\ failed' = IF out.raised THEN failed \cup {i} ELSE failed
              /\ faultOf' = [faultOf EXCEPT ![i] = fault]
              /\ strategy' = [strategy EXCEPT ![i] = out.scan]
    /\ worker' = [worker EXCEPT ![w] = 0]
    /\ UNCHANGED <<wrapVars, scanVars, otherVars, req, bodyOfA, visited, pc, files_to_search,
                   nextSubmit, queue, yielded, results, submits, scans, statFailed>>

(* The result list after a future's list is taken in, when the list        *)
(* replaces what was collected.                                            *)
ReplacedBy(res, file_results) == file_results

Reverse(seq) == [k \in 1..Len(seq) |-> seq[Len(seq) + 1 - k]]

(* The result list when each Occurrence of the future's list is inserted   *)
(* at the front of what was collected.                                     *)
ExtendedAtFront(res, file_results) == Reverse(file_results) \o res

(* The result list when only the list of the first future handed out is    *)
(* kept.                                                                   *)
KeptFirst(res, file_results) == IF res = <<>> THEN file_results ELSE res

(* results.extend(file_results) *)
Extended(res, file_results) == res \o file_results

(* Lines 514-518: as_completed hands out a finished future, and its list,  *)
(* if not empty, is added to results.                                      *)
Collect(i) ==
    /\ pc = "collect"
    /\ i \in 1..Len(files_to_search)
    /\ i \notin yielded
    /\ future[i].state = "finished"
    /\ yielded' = yielded \cup {i}
    \* future.result() raises the exception the future ended with
    /\ pc' = IF future[i].exception THEN "raised" ELSE pc
    /\ results' = IF ~future[i].exception /\ future[i].result # <<>>
                  THEN Extended(results, future[i].result)
                  ELSE results
    /\ UNCHANGED <<wrapVars, scanVars, otherVars, req, bodyOfA, visited, strategy,
                   files_to_search, nextSubmit, queue,
                   worker, future, submits, scans, failed, statFailed, faultOf>>

(* Line 520: every future was handed out; the executor is shut down and    *)
(* results is returned.                                                    *)
Return ==
    /\ pc = "collect"
    /\ yielded = 1..Len(files_to_search)
    /\ pc' = "done"
    /\ UNCHANGED <<wrapVars, scanVars, otherVars, req, bodyOfA, visited, strategy,
                   files_to_search, nextSubmit, queue, worker,
                   future, yielded, results, submits, scans, failed, statFailed, faultOf>>

Next ==
    \/ Enumerate
    \/ Submit
    \/ \E w \in DOMAIN worker : WorkerTake(w)
    \/ \E w \in DOMAIN worker : WorkerFinish(w)
    \/ \E i \in DOMAIN future : Collect(i)
    \/ Return

ScanIdle == scanIn = <<>> /\ readOut = <<>> /\ mmapOut = <<>>

Init == ScanIdle /\ WrapperIdle /\ OthersIdle /\ EngineInit

Spec == Init /\ [][Next]_vars

-----------------------------------------------------------------------------
(* SpecScan: the two scans, each run once on one file.  The file is        *)
(* directory/name, seen from the current directory cwd.  Its body is a     *)
(* head alone or a head followed by MmapThreshold spaces (a body large     *)
(* enough for search_file to map it).  The heads are those of at most      *)
(* MaxLen letters and newlines, and those of one byte less that also hold  *)
(* spaces and invalid bytes; the path scenarios other than the first are   *)
(* run on heads of at most one byte, and the empty search string on        *)
(* bodies without padding.                                                 *)

DefaultScenario ==
    [cwd |-> <<"/", "w">>, directory |-> <<"d">>, name |-> <<"f">>]

ScanScenarios ==
    { DefaultScenario,
      [cwd |-> <<"/", "o">>, directory |-> <<"d">>, name |-> <<"f">>],
      [cwd |-> <<"/", "w">>, directory |-> <<"/", "w", "/", "d">>, name |-> <<"f">>],
      [cwd |-> <<"/", "w">>, directory |-> <<"/", "o">>, name |-> <<"f">>],
      [cwd |-> <<"/", "w">>, directory |-> <<"/", "w", "/", "d">>, name |-> <<"f", " ">>] }

(* The heads of the file bodies: every string of pattern characters up to  *)
(* MaxLen, every string of content bytes up to MaxLen - 2, and lines with  *)
(* white space or an invalid byte on both sides of a letter.               *)
ScanHeads ==
    SeqsUpTo(PatternChars, MaxLen) \cup SeqsUpTo(ContentBytes, MaxLen - 2)
        \cup { <<" ", "a", " ">>, <<" ", "A", " ">>, <<"0xFF", "a", "0xFF">>,
               <<"a", " ", "a">>, <<"a", "0xFF", "a">>, <<" ", "\n", "a">> }

NotStarted == [done |-> FALSE, results |-> <<>>]

ScanInit ==
    /\ \E sc \in ScanScenarios, head \in ScanHeads, pad \in {0, MmapThreshold},
          search_string \in SeqsUpTo(PatternChars, MaxPat), ignore_case \in BOOLEAN :
          /\ sc = DefaultScenario \/ Len(head) <= 1
          /\ pad = 0 \/ search_string # <<>>
          /\ scanIn = [cwd |-> sc.cwd,
                       base_directory |-> sc.directory,
                       file_path |-> Join(sc.directory, sc.name),
                       body |-> [head |-> head, pad |-> pad],
                       search_string |-> search_string,
                       ignore_case |-> ignore_case]
    /\ readOut = NotStarted
    /\ mmapOut = NotStarted
    /\ EngineIdle
    /\ WrapperIdle
    /\ OthersIdle

ScanFiles == (AbsPath(scanIn.file_path, scanIn.cwd) :> scanIn.body)

RunRead ==
    /\ ~readOut.done
    /\ readOut' = [done |-> TRUE,
                   results |-> SearchWithRead(ScanFiles, scanIn.cwd, "none",
                                   scanIn.file_path,
                                   SearchBytes(scanIn.search_string, scanIn.ignore_case),
                                   scanIn.ignore_case, scanIn.base_directory).results]
    /\ UNCHANGED <<scanIn, mmapOut, engineVars, wrapVars, otherVars>>

RunMmap ==
    /\ readOut.done
    /\ ~mmapOut.done
    /\ mmapOut' = [done |-> TRUE,
                   results |-> SearchWithMmap(ScanFiles, scanIn.cwd, "none",
                                   scanIn.file_path,
                                   SearchBytes(scanIn.search_string, scanIn.ignore_case),
                                   scanIn.ignore_case, scanIn.base_directory).results]
    /\ UNCHANGED <<scanIn, readOut, engineVars, wrapVars, otherVars>>

ScanNext == RunRead \/ RunMmap

SpecScan == ScanInit /\ [][ScanNext]_vars

-----------------------------------------------------------------------------
(* SpecWrapper: AIAgent.__search_string_in_files_wrapper, one tool call.   *)
(* The input is 'search_string|||directory|||options_json': a sequence of  *)
(* characters, the separator "|||" and, in the options, JSON tokens.       *)

SEP == "|||"

(* input_str.split("|||") *)
RECURSIVE Split(_)
Split(s) ==
    LET idx == {i \in 1..Len(s) : s[i] = SEP}
    IN  IF idx = {} THEN <<s>>
        ELSE LET i == SetMin(idx)
             IN  <<SubSeq(s, 1, i - 1)>> \o Split(SubSeq(s, i + 1, Len(s)))

(* A JSON value as Python holds it: type is one of int, float, bool, str,  *)
(* NoneType, list and dict; num is the number of an int, the integral      *)
(* part of a float and 1 or 0 for True or False; text is the text of a     *)
(* str; items are the texts of a list of strings; members are the entries  *)
(* of a dict.                                                              *)
JsonValue(type, num, text, items, members) ==
    [type |-> type, num |-> num, text |-> text, items |-> items, members |-> members]

JsonInt(n) == JsonValue("int", n, <<>>, <<>>, <<>>)
JsonStr(text) == JsonValue("str", 0, text, <<>>, <<>>)
JsonList(items) == JsonValue("list", 0, <<>>, items, <<>>)
JsonDict(members) == JsonValue("dict", 0, <<>>, <<>>, members)
JsonBool(b) == JsonValue("bool", IF b THEN 1 ELSE 0, <<>>, <<>>, <<>>)

(* The truth value Python gives a JSON value in "if v" and "not v"; the    *)
(* floats of the options have a non-zero integral part.                    *)
Truthy(v) ==
    CASE v.type \in {"int", "bool", "float"} -> v.num # 0
      [] v.type = "str" -> v.text # <<>>
      [] v.type = "list" -> v.items # <<>>
      [] v.type = "dict" -> DOMAIN v.members # {}
      [] OTHER -> FALSE

KeyTokens ==
    {"\"max_workers\"", "\"additional_ignore_dirs\"", "\"disable_smart_ignore\"",
     "\"max_results\""}
StringTokens == KeyTokens \cup {"\"d\"", "\"x\""}
ScalarTokens == StringTokens \cup {"0", "-3", "1", "2", "2.5", "true", "false", "null"}

(* The text between the quotes of a string token.                          *)
TextOf(t) ==
    CASE t = "\"d\"" -> <<"d">>
      [] t = "\"x\"" -> <<"x">>
      [] OTHER -> <<t>>

(* The key a string token names in a dict.                                 *)
KeyOf(t) ==
    CASE t = "\"max_workers\"" -> "max_workers"
      [] t = "\"additional_ignore_dirs\"" -> "additional_ignore_dirs"
      [] t = "\"disable_smart_ignore\"" -> "disable_smart_ignore"
      [] t = "\"max_results\"" -> "max_results"
      [] OTHER -> t

Scalar(t) ==
    CASE t = "0" -> JsonInt(0)
      [] t = "-3" -> JsonInt(0 - 3)
      [] t = "1" -> JsonInt(1)
      [] t = "2" -> JsonInt(2)
      [] t = "2.5" -> JsonValue("float", 2, <<>>, <<>>, <<>>)
      [] t = "true" -> JsonValue("bool", 1, <<>>, <<>>, <<>>)
      [] t = "false" -> JsonValue("bool", 0, <<>>, <<>>, <<>>)
      [] t = "null" -> JsonValue("NoneType", 0, <<>>, <<>>, <<>>)
      [] OTHER -> JsonStr(TextOf(t))

ParseFailed == [ok |-> FALSE, value |-> JsonInt(0), rest |-> <<>>]
Parsed(value, rest) == [ok |-> TRUE, value |-> value, rest |-> rest]

(* json.loads on tokens: scalars, lists of strings and dicts.  White      *)
(* space between tokens is skipped; a later key replaces an equal earlier  *)
(* one.                                                                    *)
RECURSIVE ParseItems(_, _)
ParseItems(toks, items) ==
    IF Len(toks) < 2 \/ toks[1] \notin StringTokens THEN ParseFailed
    ELSE IF toks[2] = "]"
        THEN Parsed(JsonList(Append(items, TextOf(toks[1]))), SubSeq(toks, 3, Len(toks)))
    ELSE IF toks[2] = ","
        THEN ParseItems(SubSeq(toks, 3, Len(toks)), Append(items, TextOf(toks[1])))
    ELSE ParseFailed

WithMember(members, key, value) ==
    [k \in DOMAIN members \cup {key} |-> IF k = key THEN value ELSE members[k]]

RECURSIVE ParseValue(_)
RECURSIVE ParseMembers(_, _)
RECURSIVE MemberParsed(_, _, _)

ParseValue(toks) ==
    IF toks = <<>> THEN ParseFailed
    ELSE IF Head(toks) \in ScalarTokens THEN Parsed(Scalar(Head(toks)), Tail(toks))
    ELSE IF Head(toks) = "["
        THEN IF Len(toks) >= 2 /\ toks[2] = "]"
             THEN Parsed(JsonList(<<>>), SubSeq(toks, 3, Len(toks)))
             ELSE ParseItems(Tail(toks), <<>>)
    ELSE IF Head(toks) = "{"
        THEN IF Len(toks) >= 2 /\ toks[2] = "}"
             THEN Parsed(JsonDict(<<>>), SubSeq(toks, 3, Len(toks)))
             ELSE ParseMembers(Tail(toks), <<>>)
    ELSE ParseFailed

ParseMembers(toks, members) ==
    IF Len(toks) < 3 \/ toks[1] \notin StringTokens \/ toks[2] # ":" THEN ParseFailed
    ELSE MemberParsed(ParseValue(SubSeq(toks, 3, Len(toks))), KeyOf(toks[1]), members)

MemberParsed(v, key, members) ==
    IF ~v.ok \/ v.rest = <<>> THEN ParseFailed
    ELSE IF Head(v.rest) = "}"
        THEN Parsed(JsonDict(WithMember(members, key, v.value)), Tail(v.rest))
    ELSE IF Head(v.rest) = ","
        THEN ParseMembers(Tail(v.rest), WithMember(members, key, v.value))
    ELSE ParseFailed

(* json.loads(options_str): ok is FALSE where JSONDecodeError is raised.   *)
JsonLoads(text) ==
    LET v == ParseValue(SelectSeq(text, LAMBDA c : ~IsSpace(c)))
    IN  [ok |-> v.ok /\ v.rest = <<>>, value |-> v.value]

(* options.get(key, default) on a dict *)
Get(options, key, default) ==
    IF key \in DOMAIN options.members THEN options.members[key] ELSE default

(* config.py: DISABLE_SMART_IGNORE = False *)
DISABLE_SMART_IGNORE == FALSE

DefaultMaxWorkers == 4
DefaultMaxFileSizeMb == 100
DefaultMaxResults == 50

(* Lines 363-375.  The options explored hold the keys max_workers and      *)
(* additional_ignore_dirs; every other option takes its default.           *)
SearchOptions(options) ==
    [file_pattern |-> <<"*">>,
     ignore_case |-> TRUE,
     max_workers |-> Get(options, "max_workers", JsonInt(DefaultMaxWorkers)),
     max_file_size_mb |-> DefaultMaxFileSizeMb,
     use_memory_mapping |-> TRUE,
     disable_smart_ignore |->
         Get(options, "disable_smart_ignore", JsonBool(DISABLE_SMART_IGNORE)),
     custom_ignore_patterns |-> <<>>,
     additional_ignore_dirs |-> Get(options, "additional_ignore_dirs", JsonList(<<>>)),
     additional_ignore_files |-> <<>>]

(* isinstance(v, int): bool is a subclass of int *)
IsInstanceInt(v) == v.type \in {"int", "bool"}

(* Lines 384-388 *)
ValidMaxWorkers(v) ==
    IF ~IsInstanceInt(v) \/ v.num < 1 THEN JsonInt(DefaultMaxWorkers) ELSE v

(* Lines 391-397 *)
ValidList(v) == IF v.type # "list" THEN JsonList(<<>>) ELSE v

(* os.path.exists *)
Exists(fs, cwd, path) == IsDir(fs, cwd, path) \/ IsFile(fs, cwd, path)

(* A wrapper that does not look at the directory.                          *)
DirectoryUnchecked(fs, cwd, path) == FALSE

(* Line 380: directory and not os.path.exists(directory) *)
DirectoryMissing(fs, cwd, path) == path # None /\ ~Exists(fs, cwd, path)

(* The file system and current directory of the tool call.                 *)
WrapperTree == [dirs |-> TreeDirs, files |-> TreeFiles(Small(<<"a">>))]

ErrorText(text) ==
    [text |-> text, count |-> 0, listed |-> 0, truncated |-> FALSE, more |-> 0,
     notice |-> FALSE]

(* A wrapper that puts the smart-filtering notice in every message.        *)
FilterInfoAlways(search_options) == TRUE

(* Lines 408 and 429: the smart-filtering notice is in the message if      *)
(* not search_options["disable_smart_ignore"].                             *)
FilterInfo(search_options) == ~Truthy(search_options.disable_smart_ignore)

(* The arguments search_string_in_files is called with (lines 400-402);    *)
(* directory None becomes os.getcwd() (file.py, lines 422-423).            *)
SearchArguments ==
    [cwd |-> W,
     search_string |-> local.search_string,
     directory |-> IF local.directory = None THEN W ELSE local.directory,
     file_pattern |-> local.search_options.file_pattern,
     ignore_case |-> local.search_options.ignore_case,
     max_workers |-> local.search_options.max_workers.num,
     max_file_size_mb |-> local.search_options.max_file_size_mb,
     use_memory_mapping |-> local.search_options.use_memory_mapping,
     \* file.py, line 431: if disable_smart_ignore
     disable_smart_ignore |-> Truthy(local.search_options.disable_smart_ignore),
     custom_ignore_patterns |-> local.search_options.custom_ignore_patterns,
     additional_ignore_dirs |-> local.search_options.additional_ignore_dirs.items,
     additional_ignore_files |-> local.search_options.additional_ignore_files]

(* The orders in which as_completed may hand out n futures.                *)
Orders(n) == {o \in [1..n -> 1..n] : \A i, j \in 1..n : i # j => o[i] # o[j]}

(* The list search_string_in_files returns when the futures of the work    *)
(* list are handed out in the given order.                                 *)
RECURSIVE ResultsInOrder(_, _, _, _)
ResultsInOrder(fs, r, files, order) ==
    IF order = <<>> THEN <<>>
    ELSE SearchFile(fs, r, "none", files[Head(order)]).results
             \o ResultsInOrder(fs, r, files, Tail(order))

WSearchTexts == {<<>>, <<" ">>, <<"a">>, <<" ", "a", " ">>}

WDirectoryTexts ==
    { <<>>, <<" ">>, <<"d">>, <<" ", "d">>, <<"x">>, <<"a">>, <<"m">>,
      <<"/", "w", "/", "d">>, <<"/", "w", "/", "x">> }

OptionValueTokens == {"0", "-3", "1", "2", "2.5", "true", "false", "null", "\"x\""}

DisableTexts ==
    { <<"{", "\"disable_smart_ignore\"", ":", v, "}">> :
          v \in {"true", "false", "0", "null", "\"x\""} }

MaxResultsTexts ==
    { <<"{", "\"max_results\"", ":", v, "}">> : v \in OptionValueTokens }

OptionTexts ==
    { <<>>, <<" ">>, <<"{", "}">>, <<"{", " ", "}", " ">>, <<"[", "]">>, <<"2">>,
      <<"{">>, <<"}", "{">>, <<"{", "}", "{", "}">>, <<"{", "\"max_workers\"", "}">>,
      <<"{", "\"max_workers\"", ":", "}">>, <<"{", "\"max_workers\"", ":", "2">>,
      <<"{", "\"max_workers\"", "2", "}">>, <<"[", "\"d\"">>,
      <<"{", "\"additional_ignore_dirs\"", ":", "[", "\"d\"", "]", "}">>,
      <<"{", "\"additional_ignore_dirs\"", ":", "\"d\"", "}">>,
      <<"{", "\"max_workers\"", ":", "2", ",",
        "\"additional_ignore_dirs\"", ":", "[", "\"d\"", "]", "}">>,
      <<"{", "\"max_workers\"", ":", "2", ",", "\"max_workers\"", ":", "0", "}">> }
    \cup { <<"{", "\"max_workers\"", ":", v, "}">> : v \in OptionValueTokens }
    \cup DisableTexts \cup MaxResultsTexts

WrapperInit ==
    /\ \E search \in WSearchTexts, n \in 1..3, dir \in WDirectoryTexts,
          opts \in OptionTexts :
          /\ n < 2 => dir = <<>>
          /\ n < 3 => opts = <<>>
          \* disable_smart_ignore is given in the searches of d and m
          /\ opts \in DisableTexts => dir \in {<<"d">>, <<"m">>}
          \* max_results is given in the searches of the current directory
          \* and of d
          /\ opts \in MaxResultsTexts => dir \in {<<>>, <<"d">>}
          /\ input_str = search \o (IF n >= 2 THEN <<SEP>> \o dir ELSE <<>>)
                                \o (IF n >= 3 THEN <<SEP>> \o opts ELSE <<>>)
    /\ wpc = "start" /\ local = <<>> /\ calls = 0 /\ pool = 0
    /\ enumerated = <<>> /\ output = <<>>
    /\ ScanIdle
    /\ EngineIdle
    /\ OthersIdle

(* Lines 343-354 *)
Parse ==
    /\ wpc = "start"
    /\ IF Strip(Split(input_str)[1]) = <<>>
       THEN /\ output' = ErrorText("Error: Search string is required")
            /\ wpc' = "returned"
            /\ local' = local
       ELSE /\ local' = [search_string |-> Strip(Split(input_str)[1]),
                         directory |->
                             IF Len(Split(input_str)) > 1 /\ Strip(Split(input_str)[2]) # <<>>
                             THEN Strip(Split(input_str)[2]) ELSE None,
                         options_str |->
                             IF Len(Split(input_str)) > 2 /\ Strip(Split(input_str)[3]) # <<>>
                             THEN Strip(Split(input_str)[3]) ELSE <<"{", "}">>,
                         search_options |-> <<>>,
                         max_results |-> <<>>,
                         results |-> <<>>]
            /\ wpc' = "options"
            /\ output' = output
    /\ UNCHANGED <<input_str, calls, pool, enumerated, scanVars, engineVars, otherVars>>

(* Lines 357-377.  options.get on a value that is no dict raises           *)
(* AttributeError, which line 486 turns into "Error during search".        *)
ParseOptions ==
    /\ wpc = "options"
    /\ \E loaded \in {JsonLoads(local.options_str)} :
          IF ~loaded.ok
          THEN /\ output' = ErrorText("Error: Invalid JSON in options")
               /\ wpc' = "returned"
               /\ local' = local
          ELSE IF loaded.value.type # "dict"
          THEN /\ output' = ErrorText("Error during search")
               /\ wpc' = "returned"
               /\ local' = local
          ELSE /\ local' = [local EXCEPT
                                !.search_options = SearchOptions(loaded.value),
                                \* line 377
                                !.max_results = Get(loaded.value, "max_results",
                                                    JsonInt(DefaultMaxResults))]
               /\ wpc' = "validate"
               /\ output' = output
    /\ UNCHANGED <<input_str, calls, pool, enumerated, scanVars, engineVars, otherVars>>

(* Lines 379-397 *)
Validate ==
    /\ wpc = "validate"
    /\ IF DirectoryMissing(WrapperTree, W, local.directory)
       THEN /\ output' = ErrorText("Error: Directory does not exist")
            /\ wpc' = "returned"
            /\ local' = local
       ELSE /\ local' = [local EXCEPT
                            !.search_options.max_workers = ValidMaxWorkers(@),
                            !.search_options.additional_ignore_dirs = ValidList(@)]
            /\ wpc' = "search"
            /\ output' = output
    /\ UNCHANGED <<input_str, calls, pool, enumerated, scanVars, engineVars, otherVars>>

(* Lines 400-402: search_string_in_files walks the directory, creates      *)
(* ThreadPoolExecutor(max_workers=max_workers) and collects the lists of   *)
(* the futures in the order of their completion.                           *)
CallSearch ==
    /\ wpc = "search"
    /\ calls' = calls + 1
    /\ pool' = SearchArguments.max_workers
    /\ enumerated' = Walk(WrapperTree, SearchArguments, {}, SearchArguments.directory)
    /\ \E order \in Orders(Len(enumerated')) :
          local' = [local EXCEPT !.results =
                        ResultsInOrder(WrapperTree, SearchArguments, enumerated', order)]
    /\ wpc' = "format"
    /\ UNCHANGED <<input_str, output, scanVars, engineVars, otherVars>>

(* len(results) > max_results: defined between an int and an int, a bool   *)
(* or a float; any other max_results raises TypeError.                     *)
IsNumber(v) == v.type \in {"int", "bool", "float"}

(* results[:max_results] for an int: a negative max_results counts from    *)
(* the end of the list.                                                    *)
Sliced(res, max_results) ==
    SubSeq(res, 1,
           IF max_results >= 0 THEN Least(max_results, Len(res))
           ELSE IF Len(res) + max_results > 0 THEN Len(res) + max_results
           ELSE 0)

(* Lines 415-455: the count of the header, the results listed and the      *)
(* number K of the "... and K more matches" line.                          *)
Limited(res, max_results) ==
    IF ~IsNumber(max_results)
    THEN [raised |-> TRUE]
    ELSE IF Len(res) > max_results.num
    THEN \* a slice index must be an integer
         IF max_results.type = "float"
         THEN [raised |-> TRUE]
         ELSE [raised |-> FALSE, original_count |-> Len(res),
               results |-> Sliced(res, max_results.num), truncated |-> TRUE,
               more |-> Len(res) - max_results.num]
    ELSE [raised |-> FALSE, original_count |-> Len(res), results |-> res,
          truncated |-> FALSE, more |-> 0]

(* Lines 404-484: the text returned for the results; line 486 turns an     *)
(* exception into "Error during search".                                   *)
Format ==
    /\ wpc = "format"
    /\ output' = IF local.results = <<>>
                 THEN [text |-> "No matches found", count |-> 0, listed |-> 0,
                       truncated |-> FALSE, more |-> 0,
                       notice |-> FilterInfo(local.search_options)]
                 ELSE LET limited == Limited(local.results, local.max_results)
                      IN  IF limited.raised
                          THEN ErrorText("Error during search")
                          ELSE [text |-> "Found", count |-> limited.original_count,
                                listed |-> Len(limited.results),
                                truncated |-> limited.truncated,
                                more |-> limited.more,
                                notice |-> FilterInfo(local.search_options)]
    /\ wpc' = "returned"
    /\ UNCHANGED <<input_str, local, calls, pool, enumerated, scanVars, engineVars, otherVars>>

WrapperNext == Parse \/ ParseOptions \/ Validate \/ CallSearch \/ Format

SpecWrapper == WrapperInit /\ [][WrapperNext]_vars

-----------------------------------------------------------------------------
(* Properties of the scans (SpecScan).                                     *)

RECURSIVE SplitLines(_)
SplitLines(bs) ==
    LET idx == {i \in 1..Len(bs) : bs[i] = "\n"}
    IN  IF idx = {} THEN <<bs>>
        ELSE LET i == SetMin(idx)
             IN  <<SubSeq(bs, 1, i - 1)>> \o SplitLines(SubSeq(bs, i + 1, Len(bs)))

(* The text of line k of a file: its bytes (the padding belongs to the     *)
(* last line), decoded and trimmed.                                        *)
FileLineText(buf, k) ==
    LET lines == SplitLines(buf.head)
        tail == IF k = Len(lines) /\ buf.pad > 0 THEN <<" ">> ELSE <<>>
    IN  Strip(Decode(lines[k] \o tail))

BothScansDone == readOut.done /\ mmapOut.done

ScanSearchBytes == SearchBytes(scanIn.search_string, scanIn.ignore_case)

(* The buffer the comparison runs on: the body, lowercased under           *)
(* ignore_case.                                                            *)
ScanCompared == IF scanIn.ignore_case THEN LowerBuf(scanIn.body) ELSE scanIn.body

(* The offsets at which the search bytes occur in the compared buffer, in  *)
(* increasing order.  Search bytes hold no space, so that a match starts   *)
(* in the head (or, for the empty pattern, anywhere).                      *)
MatchOffsetsIn(buf, sub) ==
    {i \in 0..(IF sub = <<>> THEN BufLen(buf) ELSE Len(buf.head)) : MatchAt(buf, sub, i)}

MatchOffsets == MatchOffsetsIn(ScanCompared, ScanSearchBytes)

RECURSIVE Ascending(_)
Ascending(S) ==
    IF S = {} THEN <<>> ELSE <<SetMin(S)>> \o Ascending(S \ {SetMin(S)})

LineNumbersOfOffsets ==
    LET offs == Ascending(MatchOffsets)
    IN  [k \in 1..Len(offs) |-> CountNewlines(scanIn.body, offs[k]) + 1]

LineNumbers(occs) == [k \in 1..Len(occs) |-> occs[k].line_number]

(* The mapped scan reads the file it was given: its normalized path names  *)
(* the file, and the file is not empty.                                    *)
MmapReadsTheFile ==
    LET norm == NormalizePath(Strip(scanIn.file_path), scanIn.cwd)
        opened == IF norm.ok THEN norm.path ELSE Strip(scanIn.file_path)
    IN  /\ AbsPath(opened, scanIn.cwd) \in DOMAIN ScanFiles
        /\ BufLen(scanIn.body) > 0

(* C1: the memory-mapped scan returns the same sequence of Occurrences as  *)
(* the whole-file-read scan of the same file, for every content, pattern,  *)
(* ignore_case value and search root.                                      *)
C1_MmapEqualsRead ==
    BothScansDone => mmapOut.results = readOut.results

(* The scans search_file may have run on the file: the whole-file read on  *)
(* any file, the mapped scan on a file larger than MmapThreshold.          *)
ScansOfSearchFile ==
    {readOut} \cup (IF BufLen(scanIn.body) > MmapThreshold THEN {mmapOut} ELSE {})

(* C2: under either scan and either ignore_case value, every Occurrence's  *)
(* line_content is the original text of line line_number of the file       *)
(* (letter case preserved), decoded permissively and trimmed.              *)
C2_LineContentIsOriginalLine ==
    \A out \in ScansOfSearchFile :
        out.done =>
            \A k \in 1..Len(out.results) :
                LET occ == out.results[k]
                IN  /\ occ.line_number \in 1..Len(SplitLines(scanIn.body.head))
                    /\ occ.line_content = FileLineText(scanIn.body, occ.line_number)

(* C4: for every buffer and non-empty pattern a scan emits one Occurrence  *)
(* for each byte offset at which the pattern occurs, overlapping           *)
(* occurrences included: the Occurrences are as many as the offsets and    *)
(* lie, in order, on the lines of those offsets.                           *)
C4_OneOccurrencePerOffset ==
    (readOut.done /\ ScanSearchBytes # <<>>) =>
        \E count \in {Cardinality(MatchOffsets)}, numbers \in {LineNumbersOfOffsets} :
            /\ Len(readOut.results) = count
            /\ LineNumbers(readOut.results) = numbers
            /\ (mmapOut.done /\ MmapReadsTheFile) =>
                  /\ Len(mmapOut.results) = count
                  /\ LineNumbers(mmapOut.results) = numbers

(* "aa" in "aaaa" (alone, and followed by padding for the mapped scan):    *)
(* 3 Occurrences from each scan.                                           *)
C4_Witness ==
    /\ scanIn.body = [head |-> <<"a", "a", "a", "a">>, pad |-> MmapThreshold]
    /\ scanIn.search_string = <<"a", "a">>
    /\ BothScansDone
    /\ Len(readOut.results) = 3
    /\ Len(mmapOut.results) = 3

-----------------------------------------------------------------------------
(* Properties of one request (Spec).                                       *)

(* The file a work item or an Occurrence names.                            *)
ItemFile(i) == AbsPath(files_to_search[i].file_path, req.cwd)

OccurrencesOf(occs, a) ==
    SelectSeq(occs, LAMBDA occ : AbsPath(occ.file_path, req.cwd) = a)

(* The names of the directories an Occurrence's file lies beneath, from    *)
(* the search root down.                                                   *)
DirsFromRoot(occ) ==
    LET rel == SplitSlash(occ.relative_path)
    IN  {BaseName(req.directory)} \cup {rel[j] : j \in 1..(Len(rel) - 1)}

(* C3: when a directory name is in the effective ignore set, no returned   *)
(* Occurrence belongs to a file beneath a directory of that name, be the   *)
(* directory the search root itself or any directory below it.             *)
C3_NoFileBeneathIgnoredDir ==
    pc = "done" =>
        \A k \in 1..Len(results) : DirsFromRoot(results[k]) \cap IgnoreDirs(req) = {}

PathOfA == Abs(<<<<"w">>, <<"a">>>>)

ItemsOfA == {i \in 1..Len(files_to_search) : ItemFile(i) = PathOfA}

(* C7: a file whose size is exactly max_file_size_mb*1024*1024 bytes (in   *)
(* the searched directory, its size readable) is in the work list and is   *)
(* scanned; a file one byte larger is never in the work list and no        *)
(* Occurrence of the results is from it, though it holds the pattern.      *)
C7_SizeCeiling ==
    /\ (pc # "start" /\ req.directory = W /\ PathOfA \notin statFailed
            /\ BufLen(bodyOfA) = MaxFileSizeBytes(req)) =>
          /\ ItemsOfA # {}
          /\ pc = "done" => \A i \in ItemsOfA : scans[i] = 1
    /\ BufLen(bodyOfA) = MaxFileSizeBytes(req) + 1 =>
          /\ ItemsOfA = {}
          /\ OccurrencesOf(results, PathOfA) = <<>>

(* A file of exactly one megabyte was scanned and its match is returned.   *)
C7_Witness ==
    /\ pc = "done"
    /\ req.max_file_size_mb = 1
    /\ BufLen(bodyOfA) = BytesPerMB
    /\ ItemsOfA # {}
    /\ OccurrencesOf(results, PathOfA) # <<>>

(* C8: search_string_in_files never raises; a work item whose open, map    *)
(* or read raised has no Occurrence in the results returned, and every     *)
(* work item scanned without a fault has all of its Occurrences there.     *)
C8_FailedFileIsSkipped ==
    /\ pc # "raised"
    /\ pc = "done" =>
          \A i \in 1..Len(files_to_search) :
              LET mine == OccurrencesOf(results, ItemFile(i))
              IN  /\ i \in failed => mine = <<>>
                  /\ (i \notin failed /\ faultOf[i] = "none") =>
                        mine = SearchFile(Tree, req, "none", files_to_search[i]).results

(* A request is over: the scan of one file raised, and the Occurrences of  *)
(* another file are returned.                                              *)
C8_Witness ==
    /\ pc = "done"
    /\ failed # {}
    /\ \E i \in 1..Len(files_to_search) :
          i \notin failed /\ OccurrencesOf(results, ItemFile(i)) # <<>>

(* C9: each work item is submitted to the pool at most once and taken by   *)
(* a worker at most once, whatever its scan did; it is submitted exactly   *)
(* once when the submissions are over and scanned exactly once when the    *)
(* request is over; no two workers hold the same item, and no two items    *)
(* of the work list name the same file.                                    *)
C9_EachItemOnce ==
    /\ \A i \in 1..Len(files_to_search) :
          /\ submits[i] <= 1
          /\ scans[i] <= 1
          /\ pc \in {"collect", "done"} => submits[i] = 1
          /\ pc = "done" => scans[i] = 1
    /\ \E paths \in {[i \in 1..Len(files_to_search) |-> ItemFile(i)]} :
          \A i, j \in 1..Len(files_to_search) : i # j => paths[i] # paths[j]
    /\ \A v, w \in DOMAIN worker : (v # w /\ worker[v] # 0) => worker[v] # worker[w]

(* A request served by two workers is over; its work list had several      *)
(* items, one of which failed.                                             *)
C9_Witness ==
    /\ pc = "done"
    /\ Cardinality(DOMAIN worker) = 2
    /\ Len(files_to_search) >= 2
    /\ failed # {}
    /\ \A i \in 1..Len(files_to_search) : submits[i] = 1 /\ scans[i] = 1

BagOfSeq(seq) ==
    [x \in Range(seq) |-> Cardinality({k \in 1..Len(seq) : seq[k] = x})]

(* The Occurrences of the lists the scans of the work items in S ended     *)
(* with, as a bag.                                                         *)
RECURSIVE ScanOutputs(_)
ScanOutputs(S) ==
    IF S = {} THEN EmptyBag
    ELSE LET i == SetMin(S)
         IN  BagOfSeq(future[i].result) (+) ScanOutputs(S \ {i})

(* C10: while the futures are collected the results hold, as a bag, the    *)
(* Occurrences of the lists of the futures handed out so far; when the     *)
(* request is over every future was handed out, so that the results are    *)
(* the bag union of the lists of all the scans.                            *)
C10_ResultsAreUnionOfScans ==
    /\ pc \in {"collect", "done"} => BagOfSeq(results) = ScanOutputs(yielded)
    /\ pc = "done" => yielded = 1..Len(files_to_search)

(* A request of two workers is over and two of its scans found matches.    *)
C10_Witness ==
    /\ pc = "done"
    /\ Cardinality(DOMAIN worker) = 2
    /\ Cardinality({i \in 1..Len(files_to_search) : future[i].result # <<>>}) >= 2
    /\ Len(results) >= 3

-----------------------------------------------------------------------------
(* Properties of the tool wrapper (SpecWrapper).                           *)

InputParts == Split(input_str)

EmptySearchString == Strip(InputParts[1]) = <<>>

GivenDirectory == IF Len(InputParts) > 1 THEN Strip(InputParts[2]) ELSE <<>>

(* A directory is given and names nothing that exists.                     *)
NoSuchDirectory ==
    /\ GivenDirectory # <<>>
    /\ AbsPath(GivenDirectory, W) \notin DOMAIN WrapperTree.dirs \cup DOMAIN WrapperTree.files

GivenOptions == IF Len(InputParts) > 2 THEN Strip(InputParts[3]) ELSE <<>>

InvalidJsonOptions == GivenOptions # <<>> /\ ~JsonLoads(GivenOptions).ok

RequestLevelError == EmptySearchString \/ NoSuchDirectory \/ InvalidJsonOptions

IsErrorText(out) ==
    out.text \in {"Error: Search string is required", "Error: Invalid JSON in options",
                  "Error: Directory does not exist", "Error during search"}

(* C5: on an empty or whitespace-only search string, a directory that      *)
(* does not exist or options that are no valid JSON, the wrapper never     *)
(* calls search_string_in_files (no work list is built and no executor is  *)
(* created) and what it returns is an error message.                       *)
C5_RequestErrorStartsNothing ==
    (wpc # "idle" /\ RequestLevelError) =>
        /\ calls = 0
        /\ pool = 0
        /\ enumerated = <<>>
        /\ wpc = "returned" => IsErrorText(output)

(* The wrapper has returned the error of a directory that does not exist,  *)
(* search string and options being in order.                               *)
C5_Witness ==
    /\ wpc = "returned"
    /\ NoSuchDirectory
    /\ ~EmptySearchString
    /\ ~InvalidJsonOptions
    /\ output = ErrorText("Error: Directory does not exist")
    /\ calls = 0

(* The max_workers value the options supply, if they are a dict with that  *)
(* key.                                                                    *)
MaxWorkersSupplied ==
    /\ JsonLoads(GivenOptions).ok
    /\ JsonLoads(GivenOptions).value.type = "dict"
    /\ "max_workers" \in DOMAIN JsonLoads(GivenOptions).value.members

SuppliedMaxWorkers == JsonLoads(GivenOptions).value.members["max_workers"]

(* C6: when the max_workers supplied is no integer (a string, a float, a   *)
(* boolean, null) or is less than 1, the search is run with an executor    *)
(* of 4 workers and the wrapper returns its results, not an error.         *)
C6_InvalidMaxWorkersRunsFour ==
    (wpc # "idle" /\ ~RequestLevelError /\ MaxWorkersSupplied
         /\ (SuppliedMaxWorkers.type # "int" \/ SuppliedMaxWorkers.num < 1)) =>
        /\ wpc \in {"format", "returned"} => calls = 1 /\ pool = DefaultMaxWorkers
        /\ wpc = "returned" => ~IsErrorText(output)

-----------------------------------------------------------------------------
(* Order and content of the results of one request (Spec).                 *)

(* The bytes of the file of work item i, and the buffer its scan compares  *)
(* with the search bytes.                                                  *)
ItemBody(i) == Tree.files[ItemFile(i)]

ItemCompared(i) == IF req.ignore_case THEN LowerBuf(ItemBody(i)) ELSE ItemBody(i)

(* The match offsets of the scan of work item i, in the order of the scan. *)
ItemPositions(i) ==
    MatchPositions(ItemCompared(i), SearchBytes(req.search_string, req.ignore_case), 0)

StrictlyIncreasing(seq) == \A j, k \in 1..Len(seq) : j < k => seq[j] < seq[k]

(* C11: in the result collection the Occurrences of one file are those of  *)
(* its match offsets taken in strictly increasing order, one for each, so  *)
(* that their line numbers never decrease, in whatever order the futures   *)
(* of the files were handed out.                                           *)
C11_FileOccurrencesAscend ==
    pc \in {"collect", "done"} =>
        \A i \in yielded :
            (i \notin failed /\ faultOf[i] = "none") =>
                LET mine == OccurrencesOf(results, ItemFile(i))
                    poss == ItemPositions(i)
                IN  /\ StrictlyIncreasing(poss)
                    /\ Len(mine) = Len(poss)
                    /\ \A k \in 1..Len(mine) :
                          mine[k].line_number = CountNewlines(ItemBody(i), poss[k]) + 1
                    /\ \A j, k \in 1..Len(mine) :
                          j < k => mine[j].line_number <= mine[k].line_number

(* A request is over whose results begin with a file that is not the       *)
(* first of the work list and hold two Occurrences of one file, on lines 1 *)
(* and 2.                                                                  *)
C11_Witness ==
    /\ pc = "done"
    /\ Len(files_to_search) >= 2
    /\ results # <<>>
    /\ AbsPath(results[1].file_path, req.cwd) # ItemFile(1)
    /\ \E i \in 1..Len(files_to_search) :
          LET mine == OccurrencesOf(results, ItemFile(i))
          IN  Len(mine) = 2 /\ mine[1].line_number = 1 /\ mine[2].line_number = 2

-----------------------------------------------------------------------------
(* Offsets and lines of the scans (SpecScan).                              *)

(* The match offsets of the scans of the file, in the order of the scan.   *)
ScanPositions == MatchPositions(ScanCompared, ScanSearchBytes, 0)

(* The scans that read the file given.                                     *)
ScansOfTheFile ==
    (IF readOut.done THEN {readOut} ELSE {})
        \cup (IF mmapOut.done /\ MmapReadsTheFile THEN {mmapOut} ELSE {})

(* Line n of the file as raw bytes, its newline included (the padding      *)
(* belongs to the last line), and the offset of its first byte.            *)
RawLine(n) ==
    LET lines == SplitLines(scanIn.body.head)
    IN  [head |-> lines[n] \o (IF n < Len(lines) THEN <<"\n">> ELSE <<>>),
         pad |-> IF n = Len(lines) THEN scanIn.body.pad ELSE 0]

RECURSIVE RawLineOffset(_)
RawLineOffset(n) == IF n = 1 THEN 0 ELSE RawLineOffset(n - 1) + BufLen(RawLine(n - 1))

(* C12: line line_number of the file holds, in its raw bytes (case-folded  *)
(* under ignore_case), the whole match of the search bytes at the column   *)
(* of the match offset, for every pattern, those with a newline included.  *)
C12_LineHoldsWholeMatch ==
    \A out \in ScansOfTheFile :
        \A k \in 1..Len(out.results) :
            LET n == out.results[k].line_number
                line == IF scanIn.ignore_case THEN LowerBuf(RawLine(n)) ELSE RawLine(n)
                column == ScanPositions[k] - RawLineOffset(n)
            IN  /\ n \in 1..Len(SplitLines(scanIn.body.head))
                /\ column >= 0
                /\ MatchAt(line, ScanSearchBytes, column)


(* The offsets at which the bytes of the file are an ASCII case variant    *)
(* of the search string (under ignore_case) or the search string itself.   *)
SameLetter(a, b) == LowerChar(a) = LowerChar(b)

VariantOffsets ==
    {i \in 0..Len(scanIn.body.head) :
        /\ i + Len(scanIn.search_string) <= BufLen(scanIn.body)
        /\ \A k \in 1..Len(scanIn.search_string) :
              IF scanIn.ignore_case
              THEN SameLetter(ByteAt(scanIn.body, i + k - 1), scanIn.search_string[k])
              ELSE ByteAt(scanIn.body, i + k - 1) = scanIn.search_string[k]}

(* C13: with ignore_case a scan finds the search string at every offset    *)
(* where the file holds an ASCII case variant of it, and only there;       *)
(* without it, at every offset where the file holds its exact bytes, and   *)
(* only there.                                                             *)
C13_CaseVariantsMatch ==
    (readOut.done /\ scanIn.search_string # <<>>) =>
        \E variants \in {VariantOffsets}, poss \in {ScanPositions} :
            \A out \in ScansOfTheFile :
                /\ Len(out.results) = Cardinality(variants)
                /\ {poss[k] : k \in 1..Len(out.results)} = variants

(* "Aa" was searched without regard to case in "aAaA": both scans found    *)
(* the variants "aA", "Aa" and "aA".                                       *)
C13_Witness ==
    /\ scanIn.search_string = <<"A", "a">>
    /\ scanIn.ignore_case
    /\ scanIn.body = [head |-> <<"a", "A", "a", "A">>, pad |-> MmapThreshold]
    /\ BothScansDone
    /\ Len(readOut.results) = 3
    /\ Len(mmapOut.results) = 3


(* The newline bytes of the file before offset pos.                        *)
NewlinesBefore(pos) ==
    {i \in 0..(pos - 1) : i < Len(scanIn.body.head) /\ scanIn.body.head[i + 1] = "\n"}

(* C14: the line_number of every Occurrence is at least 1 and is the       *)
(* number of newline bytes of the buffer before the offset of the match,   *)
(* plus 1.                                                                 *)
C14_LineNumberCountsNewlines ==
    readOut.done =>
      \E poss \in {ScanPositions} :
        \A out \in ScansOfTheFile :
            \A k \in 1..Len(out.results) :
                /\ out.results[k].line_number >= 1
                /\ out.results[k].line_number = Cardinality(NewlinesBefore(poss[k])) + 1

(* A newline was searched in "a", newline, newline, "a": the matches are   *)
(* the two newline bytes, on lines 1 and 2.                                *)
C14_Witness ==
    /\ scanIn.search_string = <<"\n">>
    /\ scanIn.body.head = <<"a", "\n", "\n", "a">>
    /\ readOut.done
    /\ LineNumbers(readOut.results) = <<1, 2>>


(***************************************************************************)
(* C15: the effective ignore sets                                          *)
(***************************************************************************)
RootComps == NonEmptyComps(AbsPath(req.directory, req.cwd))

(* The file lies beneath the search root.                                  *)
BeneathRoot(f) ==
    /\ Len(NonEmptyComps(f)) > Len(RootComps)
    /\ SubSeq(NonEmptyComps(f), 1, Len(RootComps)) = RootComps

(* The names from the search root down to the file, the file's name last.  *)
BelowRoot(f) == SubSeq(NonEmptyComps(f), Len(RootComps) + 1, Len(NonEmptyComps(f)))

(* The path of the first j names below the search root, as the walk        *)
(* spells it.                                                              *)
SpelledPath(f, j) ==
    IF j = 0 THEN req.directory
    ELSE Join(req.directory, JoinSlash(SubSeq(BelowRoot(f), 1, j)))

(* A caller's custom pattern matches the name or some part of the path.    *)
CustomHit(path) ==
    \E pattern \in Range(req.custom_ignore_patterns) :
        \/ FnMatch(LowerStr(BaseName(path)), LowerStr(pattern))
        \/ FnMatch(LowerStr(path), <<"*">> \o LowerStr(pattern) \o <<"*">>)

(* The file is admitted under the directory names E_dirs and the file      *)
(* patterns E_files: no directory on its way from the root is named in     *)
(* E_dirs (the root itself counts for the files directly in it), its name  *)
(* matches no pattern of E_files, and no custom pattern hits the file or   *)
(* a directory on the way.                                                 *)
AdmittedUnder(f, E_dirs, E_files) ==
    LET below == BelowRoot(f)
        n == Len(below) - 1
    IN  /\ \A j \in 1..n : below[j] \notin E_dirs
        /\ n = 0 => BaseName(req.directory) \notin E_dirs
        /\ \A j \in 0..(n + 1) : ~CustomHit(SpelledPath(f, j))
        /\ \A pattern \in E_files : ~FnMatch(LowerStr(below[n + 1]), LowerStr(pattern))

(* The file passes the tests of the walk that are not the ignore policy.   *)
Eligible(f) ==
    /\ BeneathRoot(f)
    /\ FnMatch(BelowRoot(f)[Len(BelowRoot(f))], req.file_pattern)
    /\ f \notin statFailed
    /\ BufLen(Tree.files[f]) <= MaxFileSizeBytes(req)

WorkListFiles == {ItemFile(i) : i \in 1..Len(files_to_search)}

(* The walk has ended and nothing of the work list was submitted yet; no   *)
(* later step writes the work list.                                        *)
WalkEnded == pc \in {"submit", "collect", "done"} /\ nextSubmit = 1

(* C15: with disable_smart_ignore the work list the walk ends with holds   *)
(* every eligible file that the caller's additional_ignore_dirs,           *)
(* additional_ignore_files and custom_ignore_patterns admit, the defaults  *)
(* skipping nothing; without it the work list holds the eligible files     *)
(* admitted by the defaults united with the caller's additions.            *)
C15_EffectiveIgnoreSets ==
    WalkEnded =>
        WorkListFiles =
            {f \in DOMAIN Tree.files :
                /\ Eligible(f)
                /\ IF req.disable_smart_ignore
                   THEN AdmittedUnder(f, Range(req.additional_ignore_dirs),
                                      Range(req.additional_ignore_files))
                   ELSE AdmittedUnder(f,
                            DEFAULT_IGNORE_DIRS \cup Range(req.additional_ignore_dirs),
                            DEFAULT_IGNORE_FILES \cup Range(req.additional_ignore_files))}

(* A search of /w/d with the defaults disabled and h ignored by the caller *)
(* returned a match of the file in d/env and of the object file g.o, and   *)
(* none of h.                                                              *)
C15_Witness ==
    /\ pc = "done" /\ req.disable_smart_ignore
    /\ req.additional_ignore_files = <<<<"h">>>>
    /\ OccurrencesOf(results, Abs(<<<<"w">>, <<"d">>, ENV, <<"e">>>>)) # <<>>
    /\ OccurrencesOf(results, Abs(<<<<"w">>, <<"d">>, <<"g", ".", "o">>>>)) # <<>>
    /\ Abs(<<<<"w">>, <<"d">>, <<"h">>>>) \notin WorkListFiles


(***************************************************************************)
(* C16: the message of a search without matches                            *)
(***************************************************************************)
(* The options are a dict whose disable_smart_ignore is true in Python's   *)
(* sense.                                                                  *)
SmartIgnoreDisabled ==
    /\ JsonLoads(GivenOptions).ok
    /\ JsonLoads(GivenOptions).value.type = "dict"
    /\ "disable_smart_ignore" \in DOMAIN JsonLoads(GivenOptions).value.members
    /\ Truthy(JsonLoads(GivenOptions).value.members["disable_smart_ignore"])

(* search_string_in_files was called and returned no Occurrence.           *)
SearchFoundNothing == wpc = "returned" /\ calls = 1 /\ local.results = <<>>

(* C16: when the search the wrapper ran returned no Occurrence, an empty   *)
(* directory included, the wrapper returns the message "No matches found", *)
(* which is no error message, and the message holds the smart-filtering    *)
(* notice exactly when disable_smart_ignore is not true.                   *)
C16_NoMatchesMessage ==
    SearchFoundNothing =>
        /\ output.text = "No matches found"
        /\ ~IsErrorText(output)
        /\ output.count = 0
        /\ output.notice <=> ~SmartIgnoreDisabled

(* The search of the empty directory m with disable_smart_ignore true      *)
(* returned "No matches found" without the notice.                         *)
C16_Witness ==
    /\ SearchFoundNothing
    /\ GivenDirectory = <<"m">>
    /\ SmartIgnoreDisabled
    /\ enumerated = <<>>
    /\ output.text = "No matches found"
    /\ ~output.notice


(***************************************************************************)
(* C17: idempotence                                                        *)
(***************************************************************************)
(* What a call with the arguments req returns on the unmodified Tree when  *)
(* its futures are handed out in the order of the work list.               *)
InListOrder ==
    LET files == Walk(Tree, req, {}, req.directory)
    IN  ResultsInOrder(Tree, req, files, [k \in 1..Len(files) |-> k])

RelativeToRoot(f) == JoinSlash(BelowRoot(f))

(* C18: the file_path of every Occurrence returned is an absolute path,    *)
(* and its relative_path is the path of that file relative to the search   *)
(* root, whichever scan made it and whether the directory argument is      *)
(* absolute or relative.                                                   *)
C18_AbsoluteAndRelativePaths ==
    pc = "done" =>
        \A k \in 1..Len(results) :
            /\ IsAbs(results[k].file_path)
            /\ BeneathRoot(AbsPath(results[k].file_path, req.cwd))
            /\ results[k].relative_path =
                   RelativeToRoot(AbsPath(results[k].file_path, req.cwd))


(***************************************************************************)
(* C19: pruning of the walk                                                *)
(***************************************************************************)
VisitedDirs == {AbsPath(visited[k], req.cwd) : k \in 1..Len(visited)}

(* The directory that holds the file.                                      *)
ParentOf(f) == Abs(SubSeq(NonEmptyComps(f), 1, Len(NonEmptyComps(f)) - 1))

(* The files the walk called os.path.getsize on: those of the work list    *)
(* and those whose getsize raised.                                         *)
StattedFiles == WorkListFiles \cup statFailed

(* The ignore policy is true of the directory or of a directory on the     *)
(* way to it from a child of the search root.                              *)
BeneathIgnoredChild(dir) ==
    \E j \in 1..Len(BelowRoot(AbsPath(dir, req.cwd))) :
        Ignored(Tree, req, SpelledPath(AbsPath(dir, req.cwd), j))

(* C19: when the walk has ended it has listed no directory that is, or     *)
(* lies beneath, a child directory of which the ignore policy is true; it  *)
(* has statted and enlisted only files of the directories it listed,       *)
(* hence none beneath such a child; and of a listed directory that is      *)
(* itself ignored no file was statted or enlisted.                         *)
C19_IgnoredSubtreesNeverWalked ==
    WalkEnded =>
        /\ \A k \in 1..Len(visited) : ~BeneathIgnoredChild(visited[k])
        /\ \A f \in StattedFiles :
              /\ ParentOf(f) \in VisitedDirs
              /\ ~BeneathIgnoredChild(ParentOf(f))
        /\ \A k \in 1..Len(visited) :
              Ignored(Tree, req, visited[k]) =>
                  \A f \in StattedFiles : ParentOf(f) # AbsPath(visited[k], req.cwd)

(* The walk of /w under the defaults listed /w, /w/d and /w/m and neither  *)
(* /w/env nor /w/d/env, and the request returned matches.                  *)
C19_Witness ==
    /\ pc = "done"
    /\ req.directory = W /\ ~req.disable_smart_ignore
    /\ visited = <<W, Abs(<<<<"w">>, <<"d">>>>), Abs(<<<<"w">>, <<"m">>>>)>>
    /\ Abs(<<<<"w">>, <<"d">>, <<"h">>>>) \in WorkListFiles
    /\ results # <<>>


(***************************************************************************)
(* C20: the bounds of the line of a match                                  *)
(***************************************************************************)
NewlineAt(buf, i) == i < Len(buf.head) /\ buf.head[i + 1] = "\n"

(* The index after the last newline byte strictly before pos, 0 if none.   *)
AfterLastNewlineBefore(buf, pos) ==
    IF \E i \in 0..(pos - 1) : NewlineAt(buf, i)
    THEN SetMax({i \in 0..(pos - 1) : NewlineAt(buf, i)}) + 1
    ELSE 0

(* The index of the first newline byte at or after pos, the end of the     *)
(* buffer if none.                                                         *)
FirstNewlineFrom(buf, pos) ==
    IF \E i \in pos..(BufLen(buf) - 1) : NewlineAt(buf, i)
    THEN SetMin({i \in pos..(BufLen(buf) - 1) : NewlineAt(buf, i)})
    ELSE BufLen(buf)

(* The index after the last newline byte at or before pos, 0 if none.      *)
AfterLastNewlineThrough(buf, pos) == AfterLastNewlineBefore(buf, pos + 1)

(* The index of the first newline byte after pos, the end of the buffer    *)
(* if none.                                                                *)
FirstNewlineAfter(buf, pos) == FirstNewlineFrom(buf, pos + 1)

(* The Occurrences are those of the match offsets poss, their              *)
(* line_content the stripped text of the bytes of buf from the one bound   *)
(* to the other.                                                           *)
LinesBoundedBy(occs, poss, buf, Lower(_, _), Upper(_, _)) ==
    \A k \in 1..Len(occs) :
        \E lower \in {Lower(buf, poss[k])}, upper \in {Upper(buf, poss[k])} :
            /\ lower <= upper
            /\ occs[k].line_content = SliceText(buf, lower, upper)

(* C20, as it is stated: for every match at offset pos, line_start is the  *)
(* index after the last newline byte at or before pos (0 if none),         *)
(* line_end the index of the next newline byte after pos (the end of the   *)
(* buffer if none), line_start <= line_end, and line_content is the text   *)
(* of buffer[line_start:line_end].                                         *)
C20_LineBoundsAsStated ==
    readOut.done =>
        \E poss \in {ScanPositions} :
            /\ LinesBoundedBy(readOut.results, poss, scanIn.body,
                              AfterLastNewlineThrough, FirstNewlineAfter)
            /\ (mmapOut.done /\ MmapReadsTheFile) =>
                  LinesBoundedBy(mmapOut.results, poss, ScanCompared,
                                 AfterLastNewlineThrough, FirstNewlineAfter)

(* C20, amended: for every match at offset pos, line_start is the index    *)
(* after the last newline byte strictly before pos (0 if none) and         *)
(* line_end the index of the first newline byte at or after pos (the end   *)
(* of the buffer if none), so that line_start <= pos <= line_end, with     *)
(* line_end = pos when the byte at pos is a newline; line_content is the   *)
(* stripped text of buffer[line_start:line_end], the buffer being the file *)
(* for the read scan and the buffer compared for the mapped scan.          *)
C20_LineBounds ==
    readOut.done =>
        \E poss \in {ScanPositions} :
            /\ LinesBoundedBy(readOut.results, poss, scanIn.body,
                              AfterLastNewlineBefore, FirstNewlineFrom)
            /\ (mmapOut.done /\ MmapReadsTheFile) =>
                  LinesBoundedBy(mmapOut.results, poss, ScanCompared,
                                 AfterLastNewlineBefore, FirstNewlineFrom)
            /\ \A k \in 1..Len(poss) :
                  \E upper \in {FirstNewlineFrom(scanIn.body, poss[k])} :
                      /\ AfterLastNewlineBefore(scanIn.body, poss[k]) <= poss[k]
                      /\ poss[k] <= upper
                      /\ NewlineAt(scanIn.body, poss[k]) => upper = poss[k]

(* A newline was searched in "a", newline, newline, "a": the line of the   *)
(* first match is "a", which ends at the match, and the line of the second *)
(* is empty.                                                               *)
C20_Witness ==
    /\ scanIn.search_string = <<"\n">>
    /\ scanIn.body.head = <<"a", "\n", "\n", "a">>
    /\ readOut.done
    /\ Len(readOut.results) = 2
    /\ readOut.results[1].line_content = <<"a">>
    /\ readOut.results[2].line_content = <<>>


(***************************************************************************)
(* C21: the choice of the scan                                             *)
(***************************************************************************)
ScannedItems == {i \in 1..Len(files_to_search) : strategy[i] # "none"}

(* C21: for each work item by itself, search_file runs the memory-mapped   *)
(* scan exactly when use_memory_mapping is true and the enumerated size of *)
(* the item is strictly greater than 1024 bytes, and the whole-file-read   *)
(* scan in every other case.                                               *)
C21_ScanChosenPerItem ==
    \A i \in ScannedItems :
        IF req.use_memory_mapping /\ files_to_search[i].file_size > 1024
        THEN strategy[i] = "mmap"
        ELSE strategy[i] = "read"

(* One request scanned g.o, of 1024 bytes, with the read scan and e and h, *)
(* of 1025 and 1026 bytes, with the mapped scan.                           *)
C21_Witness ==
    /\ pc = "done"
    /\ \E i, j, k \in ScannedItems :
          /\ files_to_search[i].file_size = 1024 /\ strategy[i] = "read"
          /\ files_to_search[j].file_size = 1025 /\ strategy[j] = "mmap"
          /\ files_to_search[k].file_size = 1026 /\ strategy[k] = "mmap"


(***************************************************************************)
(* C22: the work list                                                      *)
(***************************************************************************)
(* The path of the file and of the directory that holds it, as the walk    *)
(* spells them.                                                            *)
SpelledFile(f) == SpelledPath(f, Len(BelowRoot(f)))

SpelledParent(f) == SpelledPath(f, Len(BelowRoot(f)) - 1)

(* C22: the work list the walk ends with holds exactly the files that lie  *)
(* in a directory the walk listed which is not ignored, are not ignored    *)
(* themselves, have a name matching file_pattern, a size that could be     *)
(* obtained and a size of at most the ceiling; a file whose stat failed is *)
(* the only one dropped for it, its siblings being enlisted.               *)
C22_WorkListIsExact ==
    WalkEnded =>
        WorkListFiles =
            {f \in DOMAIN Tree.files :
                /\ BeneathRoot(f)
                /\ ParentOf(f) \in VisitedDirs
                /\ ~Ignored(Tree, req, SpelledParent(f))
                /\ ~Ignored(Tree, req, SpelledFile(f))
                /\ FnMatch(BaseName(f), req.file_pattern)
                /\ f \notin statFailed
                /\ BufLen(Tree.files[f]) <= req.max_file_size_mb * 1024 * 1024}

(* The stat of /w/a failed during the walk of /w: a is not in the work     *)
(* list and its sibling k, listed after it, is.                            *)
C22_Witness ==
    /\ WalkEnded
    /\ req.directory = W
    /\ statFailed = {PathOfA}
    /\ PathOfA \notin WorkListFiles
    /\ Abs(<<<<"w">>, <<"k">>>>) \in WorkListFiles


-----------------------------------------------------------------------------
(* SpecPolicy: one call of _should_ignore_path.                            *)

PolicyPaths ==
    { <<"a">>, <<"A">>, <<"a", ".", "a">>, <<"A", ".", "A">>, <<"d">>,
      <<"a", "/", "d">>, <<"d", "/", "a">>, <<"d", "/", "A", ".", "a">> }

PolicyKinds == {"dir", "file", "none"}

PolicyDirSets == { {}, {<<"a">>}, {<<"d">>, <<"A">>} }

PolicyFileSets ==
    { {}, {<<"*", ".", "a">>}, {<<"A">>}, {<<"*", ".", "A">>, <<"?">>} }

PolicyCustoms ==
    { <<>>, <<<<"a">>>>, <<<<"A", ".", "*">>>>, <<<<"d">>, <<"a", "/", "*">>>> }

(* The file system in which the path is a directory, a file or nothing.    *)
PolicyFs(path, kind) ==
    [dirs |-> IF kind = "dir"
              THEN (AbsPath(path, W) :> [dirs |-> <<>>, files |-> <<>>])
              ELSE <<>>,
     files |-> IF kind = "file" THEN (AbsPath(path, W) :> Small(<<"a">>)) ELSE <<>>]

PolicyInit ==
    /\ \E path \in PolicyPaths, kind \in PolicyKinds, ignore_dirs \in PolicyDirSets,
          ignore_files \in PolicyFileSets, custom_ignore_patterns \in PolicyCustoms :
          polIn = [path |-> path, kind |-> kind, ignore_dirs |-> ignore_dirs,
                   ignore_files |-> ignore_files,
                   custom_ignore_patterns |-> custom_ignore_patterns]
    /\ polOut = [done |-> FALSE]
    /\ ScanIdle /\ EngineIdle /\ WrapperIdle /\ CallsIdle /\ LiveIdle /\ FilesIdle /\ ZipIdle /\ DupIdle /\ SchedIdle

(* The call: its value, and its arguments as they are when it returns (no  *)
(* statement of the function writes to them).                              *)
Decide ==
    /\ ~polOut.done
    /\ polOut' = [done |-> TRUE,
                  value |-> ShouldIgnorePath(PolicyFs(polIn.path, polIn.kind), W,
                                polIn.path, polIn.ignore_dirs, polIn.ignore_files,
                                polIn.custom_ignore_patterns),
                  ignore_dirs |-> polIn.ignore_dirs,
                  ignore_files |-> polIn.ignore_files,
                  custom_ignore_patterns |-> polIn.custom_ignore_patterns]
    /\ UNCHANGED <<polIn, outsidePolicy>>

PolicyNext == Decide

SpecPolicy == PolicyInit /\ [][PolicyNext]_vars

(* A glob matches a name without regard to case.                           *)
FoldedMatch(name, glob) == FnMatch(LowerStr(name), LowerStr(glob))

DirHit == polIn.kind = "dir" /\ BaseName(polIn.path) \in polIn.ignore_dirs

FileHit ==
    /\ polIn.kind = "file"
    /\ \E glob \in polIn.ignore_files : FoldedMatch(BaseName(polIn.path), glob)

CustomNameHit ==
    \E pattern \in Range(polIn.custom_ignore_patterns) :
        FoldedMatch(BaseName(polIn.path), pattern)

CustomPathHit ==
    \E pattern \in Range(polIn.custom_ignore_patterns) :
        FoldedMatch(polIn.path, <<"*">> \o pattern \o <<"*">>)

(* C23: the ignore policy returns true exactly when the path is a          *)
(* directory whose basename is, letter for letter, one of the ignored      *)
(* directory names, or a file whose basename matches an ignored file glob  *)
(* without regard to case, or its basename matches a custom pattern        *)
(* without regard to case, or its full path matches a custom pattern       *)
(* wrapped in wildcards; otherwise it returns false; and its arguments are *)
(* what they were.                                                         *)
C23_IgnorePolicy ==
    polOut.done =>
        /\ polOut.value \in BOOLEAN
        /\ polOut.value <=> (DirHit \/ FileHit \/ CustomNameHit \/ CustomPathHit)
        /\ polOut.ignore_dirs = polIn.ignore_dirs
        /\ polOut.ignore_files = polIn.ignore_files
        /\ polOut.custom_ignore_patterns = polIn.custom_ignore_patterns

(* The directory "a" is not ignored under the names "d" and "A", no file   *)
(* glob applying to a directory.                                           *)
C23_Witness ==
    /\ polOut.done
    /\ polIn.path = <<"a">> /\ polIn.kind = "dir"
    /\ polIn.ignore_dirs = {<<"d">>, <<"A">>}
    /\ polIn.ignore_files = {<<"*", ".", "A">>, <<"?">>}
    /\ polIn.custom_ignore_patterns = <<>>
    /\ ~polOut.value


-----------------------------------------------------------------------------
(* SpecCalls: a sequence of search_string_in_files calls in one process,   *)
(* as far as the ignore sets go.                                           *)

CallArguments ==
    { [disable_smart_ignore |-> disable] @@ additions :
          disable \in BOOLEAN, additions \in Additions }

CallsInit ==
    /\ moduleSets = [ignore_dirs |-> DEFAULT_IGNORE_DIRS,
                     ignore_files |-> DEFAULT_IGNORE_FILES]
    /\ callLog = <<>>
    /\ ScanIdle /\ EngineIdle /\ WrapperIdle /\ PolicyIdle /\ LiveIdle /\ FilesIdle /\ ZipIdle /\ DupIdle /\ SchedIdle

(* One call: lines 430-440 set up its ignore sets.                         *)
SearchCall ==
    /\ Len(callLog) < MaxCalls
    /\ \E r \in CallArguments :
          \E setup \in {IgnoreSetup(moduleSets, r)} :
              /\ callLog' = Append(callLog, [arguments |-> r,
                                             ignore_dirs |-> setup.ignore_dirs,
                                             ignore_files |-> setup.ignore_files])
              /\ moduleSets' = setup.module
    /\ UNCHANGED outsideCalls

CallsNext == SearchCall

SpecCalls == CallsInit /\ [][CallsNext]_vars

(* C24: after any sequence of search calls, whatever their                 *)
(* additional_ignore_dirs, additional_ignore_files and custom patterns,    *)
(* the module-level DEFAULT_IGNORE_DIRS and DEFAULT_IGNORE_FILES are what  *)
(* they were at import, and the ignore sets of every call are those of its *)
(* own arguments, the extras of the calls before it having no part.        *)
C24_DefaultsNeverChange ==
    /\ callLog # <<>> =>
          /\ moduleSets.ignore_dirs = DEFAULT_IGNORE_DIRS
          /\ moduleSets.ignore_files = DEFAULT_IGNORE_FILES
    /\ \A n \in 1..Len(callLog) :
          LET r == callLog[n].arguments
          IN  /\ callLog[n].ignore_dirs =
                     (IF r.disable_smart_ignore THEN {} ELSE DEFAULT_IGNORE_DIRS)
                         \cup Range(r.additional_ignore_dirs)
              /\ callLog[n].ignore_files =
                     (IF r.disable_smart_ignore THEN {} ELSE DEFAULT_IGNORE_FILES)
                         \cup Range(r.additional_ignore_files)

(* A call that added the directory d and one that added the file pattern h *)
(* were followed by a call without additions, whose ignore sets are the    *)
(* defaults.                                                               *)
C24_Witness ==
    /\ Len(callLog) = 3
    /\ callLog[1].arguments.additional_ignore_dirs = <<<<"d">>>>
    /\ ~callLog[1].arguments.disable_smart_ignore
    /\ callLog[2].arguments.additional_ignore_files = <<<<"h">>>>
    /\ ~callLog[2].arguments.disable_smart_ignore
    /\ callLog[3].arguments = [disable_smart_ignore |-> FALSE] @@ NoAdditions
    /\ callLog[3].ignore_dirs = DEFAULT_IGNORE_DIRS
    /\ callLog[3].ignore_files = DEFAULT_IGNORE_FILES


-----------------------------------------------------------------------------
(* SpecLive: one search call from its work list on, the while loop of each *)
(* scan taken one iteration at a time, under the fairness the threads of   *)
(* the process have.                                                       *)

LiveBodies ==
    {Small(<<>>), Small(<<"a">>), Small(<<"a", "a">>), Small(<<"a", "\n", "a">>)}

LiveInit ==
    /\ \E search_bytes \in SeqsUpTo({"a"}, MaxPat), max_workers \in 1..MaxWorkers,
          files \in SeqsUpTo(LiveBodies, MaxItems) :
          /\ liveReq = [search_bytes |-> search_bytes, max_workers |-> max_workers,
                        files |-> files]
          /\ livePc = IF files = <<>> THEN "collect" ELSE "submit"
          /\ liveWorker = [w \in 1..max_workers |-> [item |-> 0, start |-> 0]]
          /\ liveFuture = [i \in 1..Len(files) |-> [state |-> "none", hits |-> {}]]
    /\ liveNext = 1 /\ liveQueue = <<>> /\ liveYielded = {}
    /\ ScanIdle /\ EngineIdle /\ WrapperIdle /\ PolicyIdle /\ CallsIdle /\ FilesIdle /\ ZipIdle /\ DupIdle /\ SchedIdle

(* Lines 509-512: executor.submit for the next work item.                  *)
LiveSubmit ==
    /\ livePc = "submit"
    /\ liveQueue' = Submitted(liveQueue, liveNext)
    /\ liveFuture' = [liveFuture EXCEPT ![liveNext].state = "pending"]
    /\ liveNext' = liveNext + 1
    /\ livePc' = IF liveNext = Len(liveReq.files) THEN "collect" ELSE "submit"
    /\ UNCHANGED <<liveReq, liveWorker, liveYielded, outsideLive>>

(* An idle worker thread takes the first queued item: start = 0.           *)
LiveTake(w) ==
    /\ w \in DOMAIN liveWorker
    /\ liveWorker[w].item = 0
    /\ liveQueue # <<>>
    /\ liveWorker' = [liveWorker EXCEPT ![w] = [item |-> Head(liveQueue), start |-> 0]]
    /\ liveQueue' = Tail(liveQueue)
    /\ liveFuture' = [liveFuture EXCEPT ![Head(liveQueue)].state = "running"]
    /\ UNCHANGED <<liveReq, livePc, liveNext, liveYielded, outsideLive>>

(* One iteration of "while True" (lines 296-324, 347-374): find from       *)
(* start; on -1 break and return, else append and start = pos + 1.         *)
LiveScanStep(w) ==
    /\ w \in DOMAIN liveWorker
    /\ liveWorker[w].item # 0
    /\ LET i == liveWorker[w].item
           pos == Find(liveReq.files[i], liveReq.search_bytes, liveWorker[w].start)
       IN  IF pos = -1
           THEN /\ liveFuture' = [liveFuture EXCEPT ![i].state = "finished"]
                /\ liveWorker' = [liveWorker EXCEPT ![w] = [item |-> 0, start |-> 0]]
           ELSE /\ liveFuture' = [liveFuture EXCEPT ![i].hits = @ \cup {pos}]
                /\ liveWorker' = [liveWorker EXCEPT
                                      ![w].start = NextStart(pos, liveReq.search_bytes)]
    /\ UNCHANGED <<liveReq, livePc, liveNext, liveQueue, liveYielded, outsideLive>>

(* Lines 514-518: as_completed hands out a finished future.                *)
LiveCollect(i) ==
    /\ livePc = "collect"
    /\ i \in DOMAIN liveFuture
    /\ i \notin liveYielded
    /\ liveFuture[i].state = "finished"
    /\ liveYielded' = liveYielded \cup {i}
    /\ UNCHANGED <<liveReq, livePc, liveNext, liveQueue, liveWorker, liveFuture,
                   outsideLive>>

(* Line 520: every future was handed out; return results.                  *)
LiveReturn ==
    /\ livePc = "collect"
    /\ liveYielded = DOMAIN liveFuture
    /\ livePc' = "done"
    /\ UNCHANGED <<liveReq, liveNext, liveQueue, liveWorker, liveFuture, liveYielded,
                   outsideLive>>

LiveMain == LiveSubmit \/ (\E i \in 1..MaxItems : LiveCollect(i)) \/ LiveReturn

LiveThread(w) == LiveTake(w) \/ LiveScanStep(w)

LiveNext == LiveMain \/ \E w \in 1..MaxWorkers : LiveThread(w)

(* The main thread and each worker thread of the pool are operating-system *)
(* threads: one that can go on is scheduled in the end.                    *)
SpecLive ==
    /\ LiveInit /\ [][LiveNext]_vars
    /\ WF_vars(LiveMain)
    /\ \A w \in 1..MaxWorkers : WF_vars(LiveThread(w))

(* C25: every search call ends.  In each scan, whatever the buffer and the *)
(* pattern, the empty one included, the start offset of a worker that      *)
(* stays on its item only grows, and the call comes to return, every       *)
(* submitted work item having completed.                                   *)
C25_CallTerminates ==
    /\ [][\A w \in DOMAIN liveWorker :
             (liveWorker[w].item # 0 /\ liveWorker'[w] # liveWorker[w]
                  /\ liveWorker'[w].item = liveWorker[w].item)
                 => liveWorker'[w].start > liveWorker[w].start]_liveVars
    /\ <>(/\ livePc = "done"
          /\ \A i \in DOMAIN liveFuture : liveFuture[i].state = "finished")

(* A call with the empty pattern has returned: in its two files, of three  *)
(* bytes and of none, every offset from 0 to the length was matched.       *)
C25_Witness ==
    /\ livePc = "done"
    /\ liveReq.search_bytes = <<>>
    /\ liveReq.files = <<Small(<<"a", "\n", "a">>), Small(<<>>)>>
    /\ liveFuture[1].hits = 0..3
    /\ liveFuture[2].hits = {0}


-----------------------------------------------------------------------------
(* The limit of the results listed (SpecWrapper).                          *)

MaxResultsSupplied ==
    /\ JsonLoads(GivenOptions).ok
    /\ JsonLoads(GivenOptions).value.type = "dict"
    /\ "max_results" \in DOMAIN JsonLoads(GivenOptions).value.members

(* C26: for every number n of Occurrences found and every max_results m    *)
(* the options supply, the header of the output reports n, min(n, m)       *)
(* Occurrences are listed, and the K of a "... and K more matches" line    *)
(* added to the number listed gives n.                                     *)
C26_HeaderListedAndTrailer ==
    (wpc = "returned" /\ MaxResultsSupplied /\ calls = 1 /\ local.results # <<>>) =>
        /\ output.text = "Found"
        /\ output.count = Len(local.results)
        /\ output.listed = Least(Len(local.results), local.max_results.num)
        /\ output.truncated => output.more + output.listed = output.count


-----------------------------------------------------------------------------
(* SpecFiles: one call of read_file, write_file, append_file, delete_file, *)
(* list_files or get_file_info.                                            *)

FileOperations ==
    {"read_file", "write_file", "append_file", "delete_file", "list_files",
     "get_file_info"}

PathChars == {"/", "w", "2", "."}

FilesInit ==
    /\ \E operation \in FileOperations, path \in SeqsUpTo(PathChars, MaxPath) :
          fileIn = [operation |-> operation, path |-> path, cwd |-> W]
    /\ fileOut = [done |-> FALSE]
    /\ ScanIdle /\ EngineIdle /\ WrapperIdle /\ PolicyIdle /\ CallsIdle /\ LiveIdle /\ ZipIdle /\ DupIdle /\ SchedIdle

(* The path an operation hands to _normalize_path: list_files takes "."   *)
(* for an empty directory (lines 171-174), every operation strips.         *)
GivenPath(operation, path) ==
    Strip(IF operation = "list_files" /\ path = <<>> THEN <<".">> ELSE path)

(* Each operation but list_files refuses an empty path; each passes the    *)
(* stripped path through _normalize_path and returns the error of a        *)
(* ValueError; it goes to the file system with the normalized path only.   *)
FileOperation ==
    /\ ~fileOut.done
    /\ fileOut' =
          IF fileIn.operation # "list_files" /\ Strip(fileIn.path) = <<>>
          THEN [done |-> TRUE, error |-> TRUE, touched |-> {}]
          ELSE LET norm == NormalizePath(GivenPath(fileIn.operation, fileIn.path),
                                         fileIn.cwd)
               IN  IF norm.ok
                   THEN [done |-> TRUE, error |-> FALSE, touched |-> {norm.path}]
                   ELSE [done |-> TRUE, error |-> TRUE, touched |-> {}]
    /\ UNCHANGED <<fileIn, outsideFiles>>

FilesNext == FileOperation

SpecFiles == FilesInit /\ [][FilesNext]_vars

(* The workspace root or a path beneath it.                                *)
InsideWorkspace(path) ==
    path = WorkspaceRoot \/ StartsWith(path, WorkspaceRoot \o <<"/">>)

(* C27: a file operation goes to the file system only with the workspace   *)
(* root or a path beneath it; for a path that resolves outside the         *)
(* workspace, a sibling directory whose name starts with the name of the   *)
(* root included, _normalize_path raises and the operation touches         *)
(* nothing.                                                                *)
C27_StaysInsideWorkspace ==
    fileOut.done => \A path \in fileOut.touched : InsideWorkspace(path)


-----------------------------------------------------------------------------
(* SpecZip: one extract_zip_archive call on a valid archive, from the      *)
(* check of the member names on.                                           *)

ZipNames ==
    { <<"f">>, <<"s", "/">>, <<"s", "/", "f">>, <<"/", "f">>,
      <<".", ".", "/", "f">>, <<".", ".", "/", "x", "/", "f">>,
      <<".", ".", "/", "x", "2", "/", "f">> }

ZipExtractPaths == { <<"x">>, <<"/", "w", "/", "x">> }

(* The files there are before the call.                                    *)
ZipExisting == { <<"/", "w", "/", "x", "/", "f">> }

ZipInit ==
    /\ \E extract_path \in ZipExtractPaths, overwrite \in BOOLEAN,
          file_list \in SeqsUpTo(ZipNames, MaxMembers) :
          zipReq = [cwd |-> W, extract_path |-> extract_path, overwrite |-> overwrite,
                    file_list |-> file_list]
    /\ zipPc = "check" /\ zipNext = 1 /\ zipWritten = {} /\ zipError = FALSE
    /\ ScanIdle /\ EngineIdle /\ WrapperIdle /\ PolicyIdle /\ CallsIdle /\ LiveIdle /\ DupIdle /\ SchedIdle
    /\ FilesIdle

(* Lines 184-188: the test made on each member name.                       *)
Traversal(cwd, extract_path, file) ==
    ~StartsWith(AbsPath(Join(extract_path, file), cwd), AbsPath(extract_path, cwd))

(* Lines 184-188: the first loop returns the error at the first member     *)
(* that fails the test.                                                    *)
ZipCheck ==
    /\ zipPc = "check"
    /\ IF \E k \in 1..Len(zipReq.file_list) :
              Traversal(zipReq.cwd, zipReq.extract_path, zipReq.file_list[k])
       THEN zipPc' = "returned" /\ zipError' = TRUE
       ELSE zipPc' = "extract" /\ zipError' = FALSE
    /\ UNCHANGED <<zipReq, zipNext, zipWritten, outsideZip>>

(* Lines 190-209: one member of the second loop.  A name ending with "/"   *)
(* is skipped; an existing destination without overwrite returns an        *)
(* error; else the member is written at os.path.join(extract_path, file).  *)
ZipExtractMember ==
    /\ zipPc = "extract"
    /\ zipNext <= Len(zipReq.file_list)
    /\ LET file == zipReq.file_list[zipNext]
           dest_path == AbsPath(Join(zipReq.extract_path, file), zipReq.cwd)
       IN  IF EndsWith(file, <<"/">>)
           THEN UNCHANGED <<zipPc, zipError, zipWritten>>
           ELSE IF dest_path \in (ZipExisting \cup zipWritten) /\ ~zipReq.overwrite
           THEN zipPc' = "returned" /\ zipError' = TRUE /\ UNCHANGED zipWritten
           ELSE zipWritten' = zipWritten \cup {dest_path} /\ UNCHANGED <<zipPc, zipError>>
    /\ zipNext' = zipNext + 1
    /\ UNCHANGED <<zipReq, outsideZip>>

(* After the last member the summary is returned.                          *)
ZipReturn ==
    /\ zipPc = "extract"
    /\ zipNext > Len(zipReq.file_list)
    /\ zipPc' = "returned"
    /\ UNCHANGED <<zipReq, zipNext, zipWritten, zipError, outsideZip>>

ZipNext == ZipCheck \/ ZipExtractMember \/ ZipReturn

SpecZip == ZipInit /\ [][ZipNext]_vars

(* extract_path itself or a location beneath it.                           *)
InsideExtractPath(path) ==
    LET root == AbsPath(zipReq.extract_path, zipReq.cwd)
    IN  path = root \/ StartsWith(path, root \o <<"/">>)

(* C28: extract_zip_archive writes no file outside extract_path: when a    *)
(* member name resolves to a location that is neither extract_path nor     *)
(* beneath it, a sibling directory whose path starts with extract_path     *)
(* included, the call returns the error with no member extracted.          *)
C28_NeverWritesOutside ==
    /\ \A path \in zipWritten : InsideExtractPath(path)
    /\ (zipPc = "returned"
           /\ \E k \in 1..Len(zipReq.file_list) :
                 ~InsideExtractPath(AbsPath(Join(zipReq.extract_path,
                                                 zipReq.file_list[k]), zipReq.cwd)))
          => zipError /\ zipWritten = {}


-----------------------------------------------------------------------------
(* SpecDup: one find_duplicate_files call on a directory whose             *)
(* subdirectories each hold one file f, all of the same content.           *)

DupNames == {<<"p">>, <<"q">>, <<"r">>, <<"s">>}

(* The listings os.walk may give for the root: its subdirectories in any   *)
(* order.                                                                  *)
DupListings ==
    {l \in SeqsUpTo(DupNames, MaxDirs) : \A j, k \in 1..Len(l) : j # k => l[j] # l[k]}

DupInit ==
    /\ \E dirs \in DupListings, exclude_dirs \in SUBSET DupNames :
          dupReq = [directory |-> W, dirs |-> dirs, exclude_dirs |-> exclude_dirs]
    /\ dupPc = "root" /\ dupDirs = <<>> /\ dupVisited = {}
    /\ dupHashes = {} /\ dupDuplicates = {}
    /\ ScanIdle /\ EngineIdle /\ WrapperIdle /\ PolicyIdle /\ CallsIdle /\ LiveIdle /\ SchedIdle
    /\ FilesIdle /\ ZipIdle

(* list.remove(x): the list without the first item equal to x              *)
Removed(list, x) ==
    LET k == SetMin({j \in 1..Len(list) : list[j] = x})
    IN  SubSeq(list, 1, k - 1) \o SubSeq(list, k + 1, Len(list))

(* Lines 55-57: "for dir in dirs" goes through the list by index, and      *)
(* dirs.remove(dir) shortens the list it goes through: the item after a    *)
(* removed one takes its index and is not looked at.                       *)
RECURSIVE PruneLoop(_, _, _)
PruneLoop(dirs, index, exclude_dirs) ==
    IF index > Len(dirs) THEN dirs
    ELSE IF dirs[index] \in exclude_dirs
         THEN PruneLoop(Removed(dirs, dirs[index]), index + 1, exclude_dirs)
         ELSE PruneLoop(dirs, index + 1, exclude_dirs)

(* os.walk yields the root; lines 55-57 prune its dirs (the root holds no  *)
(* file).                                                                  *)
DupRoot ==
    /\ dupPc = "root"
    /\ dupVisited' = {dupReq.directory}
    /\ dupDirs' = PruneLoop(dupReq.dirs, 1, dupReq.exclude_dirs)
    /\ dupPc' = "walk"
    /\ UNCHANGED <<dupReq, dupHashes, dupDuplicates, outsideDup>>

(* os.walk yields the next directory left in dirs; lines 58-74 hash its    *)
(* file f: a content seen before makes a pair of duplicates.               *)
DupVisit ==
    /\ dupPc = "walk"
    /\ dupDirs # <<>>
    /\ LET root == Join(dupReq.directory, Head(dupDirs))
           file_path == Join(root, <<"f">>)
       IN  /\ dupVisited' = dupVisited \cup {root}
           /\ IF dupHashes = {}
              THEN dupHashes' = {file_path} /\ UNCHANGED dupDuplicates
              ELSE /\ dupDuplicates' =
                         dupDuplicates \cup {<<file_path, h>> : h \in dupHashes}
                   /\ UNCHANGED dupHashes
    /\ dupDirs' = Tail(dupDirs)
    /\ UNCHANGED <<dupReq, dupPc, outsideDup>>

(* Lines 76-84: the report is returned.                                    *)
DupReturn ==
    /\ dupPc = "walk"
    /\ dupDirs = <<>>
    /\ dupPc' = "returned"
    /\ UNCHANGED <<dupReq, dupDirs, dupVisited, dupHashes, dupDuplicates, outsideDup>>

DupNext == DupRoot \/ DupVisit \/ DupReturn

SpecDup == DupInit /\ [][DupNext]_vars

(* The paths the call has hashed or put in a pair of duplicates.           *)
DupHandled ==
    dupHashes \cup {pair[1] : pair \in dupDuplicates} \cup {pair[2] : pair \in dupDuplicates}

(* C29: find_duplicate_files never descends into a directory whose name    *)
(* is in exclude_dirs and neither hashes nor reports a file beneath it,    *)
(* whatever the number and the order of the sibling directories, two       *)
(* excluded directories next to each other in the listing included.        *)
C29_ExcludedDirsNeverWalked ==
    \A name \in dupReq.exclude_dirs :
        LET excluded == Join(dupReq.directory, name)
        IN  /\ excluded \notin dupVisited
            /\ \A path \in DupHandled : ~StartsWith(path, excluded \o <<"/">>)


-----------------------------------------------------------------------------
(* SpecSched: schedule_task and remove_scheduled_task calls on the         *)
(* class-level scheduled_tasks list and BackgroundScheduler.               *)

TaskNames == {"t", "u"}
TaskTypes == {"print", "command", "other"}

SchedInit ==
    /\ scheduled_tasks = <<>> /\ jobs = <<>> /\ running = FALSE
    /\ lastCall = [call |-> "none"]
    /\ ncalls = 0
    /\ ScanIdle /\ EngineIdle /\ WrapperIdle /\ PolicyIdle /\ CallsIdle /\ LiveIdle
    /\ FilesIdle /\ ZipIdle /\ DupIdle

(* Lines 26-60.  The task is appended first.  CronTrigger.from_crontab     *)
(* raises ValueError on an expression that is no crontab; a task_type      *)
(* other than print, command, function adds no job; scheduler.start()      *)
(* raises SchedulerAlreadyRunningError on a scheduler that runs.  The      *)
(* except clause returns the error text.                                   *)
ScheduleTask(task_name, cron_valid, task_type) ==
    /\ ncalls < MaxOps
    /\ ncalls' = ncalls + 1
    /\ scheduled_tasks' = Append(scheduled_tasks, task_name)
    /\ IF task_type \in {"print", "command"} /\ ~cron_valid
       THEN /\ UNCHANGED <<jobs, running>>
            /\ lastCall' = [call |-> "schedule_task", name |-> task_name,
                            error |-> TRUE, before |-> scheduled_tasks]
       ELSE /\ jobs' = IF task_type \in {"print", "command"}
                       THEN Append(jobs, task_name) ELSE jobs
            /\ running' = TRUE
            /\ lastCall' = [call |-> "schedule_task", name |-> task_name,
                            error |-> running, before |-> scheduled_tasks]
    /\ UNCHANGED outsideSched

(* Lines 76-86: the first task of that name leaves the list.               *)
RemoveScheduledTask(task_id) ==
    /\ ncalls < MaxOps
    /\ ncalls' = ncalls + 1
    /\ IF task_id \in Range(scheduled_tasks)
       THEN /\ scheduled_tasks' = Removed(scheduled_tasks, task_id)
            /\ lastCall' = [call |-> "remove_scheduled_task", name |-> task_id,
                            removed |-> TRUE, before |-> scheduled_tasks]
       ELSE /\ UNCHANGED scheduled_tasks
            /\ lastCall' = [call |-> "remove_scheduled_task", name |-> task_id,
                            removed |-> FALSE, before |-> scheduled_tasks]
    /\ UNCHANGED <<jobs, running, outsideSched>>

SchedNext ==
    \/ \E task_name \in TaskNames, cron_valid \in BOOLEAN, task_type \in TaskTypes :
          ScheduleTask(task_name, cron_valid, task_type)
    \/ \E task_id \in TaskNames : RemoveScheduledTask(task_id)

SpecSched == SchedInit /\ [][SchedNext]_vars

(* C30: after any calls of schedule_task and remove_scheduled_task the     *)
(* list and the jobs correspond: a task is listed if and only if a job     *)
(* for it is registered; a schedule_task call that returned an error left  *)
(* the list as it was, and a task reported as removed has no job left.     *)
C30_ListAndJobsCorrespond ==
    /\ Range(scheduled_tasks) = Range(jobs)
    /\ (lastCall.call = "schedule_task" /\ lastCall.error) =>
           scheduled_tasks = lastCall.before
    /\ (lastCall.call = "remove_scheduled_task" /\ lastCall.removed) =>
           lastCall.name \notin Range(jobs)

=============================================================================
